---- MODULE Spec2Model ----
(***************************************************************************)
(* State-machine model of the stratonode ground-node sender:               *)
(*   - GNSSReader._process_data, the NMEA/UBX byte-stream demultiplexer    *)
(*     (src/sender/gnss_reader.py);                                        *)
(*   - the lock-guarded output buffers and their drain;                    *)
(*   - CombinedService.run, the service loop                               *)
(*     (src/sender/gnss_combined_service.py);                              *)
(*   - FileLogger, hourly rotation and archival                            *)
(*     (src/sender/gnss_combined_service.py, gnss_file_logger.py).         *)
(* Bytes are integers 0..255; Python's 0-based data[i] is data[i+1] here.  *)
(***************************************************************************)
EXTENDS Integers, Sequences, FiniteSets, TLC

VARIABLES
    \* ---- GNSSReader parser state (gnss_reader.py:50-70)
    parsing_state,        \* "SEARCHING" | "IN_NMEA"
    nmea_line_buffer,     \* partial NMEA line, bytes
    ubx_partial_buffer,   \* staged UBX bytes kept for the next read
    ubx_error_count,      \* consecutive oversized-length errors
    nmea_buffer,          \* output: validated NMEA lines (byte sequences)
    ubx_buffer,           \* output: validated UBX frames (byte sequences)
    \* ---- the serial line
    sent,                 \* history: the tokens the receiver has put on the line
    wire,                 \* bytes on the line not yet read (in_waiting)
    split,                \* SpecSplit: where the frame is cut (0 elsewhere)
    scan_data,            \* _process_data, while it runs: its local `data`
    scan_i,               \* _process_data, while it runs: its local `i`
    \* ---- the logging process: FileLogger and the file system
    impl,                 \* "service" (gnss_combined_service.py) | "file_logger" (gnss_file_logger.py)
                          \* | "sender" (sender.py, which keeps no log)
    now,                  \* the UTC clock, in whole hours since an epoch
    fs,                   \* the files on disk: path -> content
    lg_pc,                \* "down" | "init_rotate" | "run" | "rotate" | "closing"
    op_now,               \* the `now` read by the running initialize / check_rotation
    current_hour,         \* FileLogger.current_hour (hour of day), -1 for None
    nmea_path, ubx_path,  \* FileLogger.nmea_path, ubx_path; << >> for None
    nmea_fh, ubx_fh,      \* open append handles, as the path they write; << >> for none
    arch_queue,           \* source paths the running operation still has to archive
    arch_pc,              \* the step of _compress_and_checksum on Head(arch_queue)
    sha_out,              \* the captured output of sha256sum
    \* ---- history and budgets of the logging model
    ticks, nwrites, faults, crashes,
    written,              \* source path -> the records appended to it, in order
    deleted,              \* source paths removed by the archival routine
    arch_crash,           \* source paths whose archival a crash interrupted
    completed,            \* path -> how many times its archival ran to the end
    \* ---- the two threads of CombinedService and the buffer lock
    buffer_lock,          \* GNSSReader.buffer_lock: TRUE when held
    rd_pc,                \* reader thread: "idle" | "scanning" | "locked" | "appended" | "ended"
    rd_pending,           \* messages of the chunk in hand the reader has yet to buffer
    nreads,               \* chunks read so far
    svc_pc,               \* service thread: its position in the loop body
    nmea_lines, ubx_raw, ubx_base64,   \* locals of the drain and of run()
    log_i,                \* index of the write loops of run()
    sequence_number, batches_sent, batches_failed,   \* NetworkSender counters
    \* ---- history of the buffer
    appended,             \* every record appended to a buffer, in append order
    drains,               \* one record per drain: what it returned, what was handed on
    \* ---- the life of the service
    STOP,                 \* the global stop flag set by the signal handler
    running,              \* GNSSReader.running
    serial_open,          \* GNSSReader.serial_conn is there and is_open
    consecutive_errors    \* the local counter of _read_loop

parserVars == <<parsing_state, nmea_line_buffer, ubx_partial_buffer,
                ubx_error_count, nmea_buffer, ubx_buffer>>
lineVars == <<sent, wire, split, scan_data, scan_i>>
logVars == <<impl, now, fs, lg_pc, op_now, current_hour, nmea_path, ubx_path,
             nmea_fh, ubx_fh, arch_queue, arch_pc, sha_out,
             ticks, nwrites, faults, crashes, written, deleted, arch_crash, completed>>
svcVars == <<buffer_lock, rd_pc, rd_pending, nreads, svc_pc, nmea_lines, ubx_raw,
             ubx_base64, log_i, sequence_number, batches_sent, batches_failed,
             appended, drains,
             STOP, running, serial_open, consecutive_errors>>
runVars == <<STOP, running, serial_open, consecutive_errors>>
receiverVars == <<parserVars, lineVars, svcVars>>
vars == <<parserVars, lineVars, logVars, svcVars>>

-----------------------------------------------------------------------------
(* Program constants *)
UBX_SYNC_CHAR_1 == 181
UBX_SYNC_CHAR_2 == 98
max_nmea_line_length == 512
max_ubx_message_length == 2048
max_ubx_errors_before_resync == 5

DOLLAR == 36
STAR == 42
NEWLINE == 10

-----------------------------------------------------------------------------
(* Byte helpers *)

RECURSIVE BitXor(_, _)
\* Python's ^ on non-negative integers.
BitXor(a, b) ==
    IF a = 0 THEN b
    ELSE IF b = 0 THEN a
    ELSE (((a % 2) + (b % 2)) % 2) + 2 * BitXor(a \div 2, b \div 2)

\* data[i:] of Python with i 0-based, as a 1-based sequence.
Slice(data, from0) ==
    IF from0 >= Len(data) THEN << >> ELSE SubSeq(data, from0 + 1, Len(data))

\* data[:n]
Prefix(data, n) ==
    IF n >= Len(data) THEN data ELSE SubSeq(data, 1, n)

-----------------------------------------------------------------------------
(* GNSSReader._validate_ubx_checksum, gnss_reader.py:380-402 *)

RECURSIVE UbxSum(_, _, _, _, _)
\* the for-loop over message[2:-2]: bytes at 1-based positions i..last
UbxSum(message, i, last, ck_a, ck_b) ==
    IF i > last THEN <<ck_a, ck_b>>
    ELSE LET a == (ck_a + message[i]) % 256
             b == (ck_b + a) % 256
         IN  UbxSum(message, i + 1, last, a, b)

UbxChecksum(message) == UbxSum(message, 3, Len(message) - 2, 0, 0)

ValidateUbxChecksumAlways(message) == TRUE

ValidateUbxChecksum(message) ==
    IF Len(message) < 8 THEN FALSE
    ELSE LET ck == UbxChecksum(message)
         IN  message[Len(message) - 1] = ck[1] /\ message[Len(message)] = ck[2]

(* GNSSReader._extract_ubx_message, gnss_reader.py:342-378.               *)
(* Returns the message, or << >> for Python's None.                        *)
UbxLength(data) == data[5] + 256 * data[6]

ExtractUbxMessage(data) ==
    IF Len(data) < 8 THEN << >>
    ELSE LET length == UbxLength(data)
             total_size == 6 + length + 2
         IN  IF length > max_ubx_message_length THEN << >>
             ELSE IF Len(data) < total_size THEN << >>
             ELSE LET message == Prefix(data, total_size)
                  IN  IF ~ValidateUbxChecksum(message) THEN << >> ELSE message

-----------------------------------------------------------------------------
(* GNSSReader._validate_nmea_checksum, gnss_reader.py:313-340.            *)
(* A line is a sequence of ASCII codes.                                    *)

\* str.isspace() for ASCII, as used by str.strip() and by int()
IsSpace(c) == c \in {9, 10, 11, 12, 13, 28, 29, 30, 31, 32}

RECURSIVE LStrip(_)
LStrip(s) == IF s # << >> /\ IsSpace(s[1]) THEN LStrip(Tail(s)) ELSE s

RECURSIVE RStrip(_)
RStrip(s) ==
    IF s # << >> /\ IsSpace(s[Len(s)]) THEN RStrip(SubSeq(s, 1, Len(s) - 1)) ELSE s

\* str.strip()
Strip(s) == LStrip(RStrip(s))

RECURSIVE LStripDollar(_)
\* sentence.lstrip('$'): removes every leading '$'
LStripDollar(s) ==
    IF s # << >> /\ s[1] = DOLLAR THEN LStripDollar(Tail(s)) ELSE s

CountOf(s, c) == Cardinality({i \in 1..Len(s) : s[i] = c})

\* 1-based index of the first c in s (s contains c)
IndexOf(s, c) == CHOOSE i \in 1..Len(s) : s[i] = c /\ \A j \in 1..(i - 1) : s[j] # c

IsHexDigit(c) == (c >= 48 /\ c <= 57) \/ (c >= 65 /\ c <= 70) \/ (c >= 97 /\ c <= 102)

HexDigitValue(c) ==
    IF c <= 57 THEN c - 48 ELSE IF c <= 70 THEN c - 55 ELSE c - 87

\* int(s, 16) for a string s of at most two characters; -1000 stands for
\* ValueError.  int() strips surrounding whitespace and takes one sign.
ParseHex(s) ==
    LET t == Strip(s)
    IN  IF t = << >> THEN -1000
        ELSE IF t[1] \in {43, 45}
             THEN IF Len(t) = 2 /\ IsHexDigit(t[2])
                  THEN (IF t[1] = 45 THEN 0 - HexDigitValue(t[2]) ELSE HexDigitValue(t[2]))
                  ELSE -1000
        ELSE IF \A i \in 1..Len(t) : IsHexDigit(t[i])
             THEN IF Len(t) = 1 THEN HexDigitValue(t[1])
                  ELSE 16 * HexDigitValue(t[1]) + HexDigitValue(t[2])
        ELSE -1000

RECURSIVE XorAll(_)
\* calc_checksum over the characters of a string
XorAll(s) == IF s = << >> THEN 0 ELSE BitXor(s[1], XorAll(Tail(s)))

ValidateNmeaChecksumAlways(nmea_line) == TRUE

ValidateNmeaChecksum(nmea_line) ==
    IF CountOf(nmea_line, STAR) = 0 THEN TRUE
    ELSE IF CountOf(nmea_line, STAR) # 1 THEN FALSE   \* split('*') unpack: ValueError
    ELSE LET k == IndexOf(nmea_line, STAR)
             sentence == LStripDollar(SubSeq(nmea_line, 1, k - 1))
             checksum == SubSeq(nmea_line, k + 1, Len(nmea_line))
             provided_checksum == ParseHex(Prefix(checksum, 2))
         IN  provided_checksum # -1000 /\ XorAll(sentence) = provided_checksum

-----------------------------------------------------------------------------
(* GNSSReader._process_data, gnss_reader.py:175-311.                       *)
(* A parser value p is a record of the reader's parser fields plus `out`,  *)
(* the appends this call makes to the output buffers, in order:            *)
(* <<"nmea", line>> for nmea_buffer.append, <<"ubx", msg>> for             *)
(* ubx_buffer.append.                                                      *)

\* bytes.decode('ascii') raises UnicodeDecodeError on a byte >= 128
DecodesAsAscii(bytes) == \A i \in 1..Len(bytes) : bytes[i] < 128

\* a line end that goes back to searching with the line still buffered
NmeaLineCompleteNoClear(p) == [p EXCEPT !.parsing_state = "SEARCHING"]

\* lines 267-286: a complete line is in p.nmea_line_buffer
NmeaLineComplete(p) ==
    LET nmea_line == Strip(p.nmea_line_buffer)
        emit == /\ DecodesAsAscii(p.nmea_line_buffer)
                /\ nmea_line # << >> /\ nmea_line[1] = DOLLAR
                /\ Len(nmea_line) > 5
                /\ ValidateNmeaChecksum(nmea_line)
    IN  [p EXCEPT !.out = IF emit THEN Append(@, <<"nmea", nmea_line>>) ELSE @,
                  !.nmea_line_buffer = << >>,
                  !.parsing_state = "SEARCHING"]

\* an oversized-length branch that leaves the staged bytes in place
UbxTooLargeKeep(p) ==
    LET n == p.ubx_error_count + 1
    IN  [p EXCEPT !.ubx_error_count =
                      IF n >= max_ubx_errors_before_resync THEN 0 ELSE n]

\* an oversized-length branch that counts on without the forced resync
UbxTooLargeNoReset(p) ==
    [p EXCEPT !.ubx_partial_buffer = << >>,
              !.ubx_error_count = p.ubx_error_count + 1]

\* lines 210-226: the oversized-length branch; both arms clear the staged bytes
UbxTooLarge(p) ==
    LET n == p.ubx_error_count + 1
    IN  [p EXCEPT !.ubx_partial_buffer = << >>,
                  !.ubx_error_count =
                      IF n >= max_ubx_errors_before_resync THEN 0 ELSE n]

\* a line that is never found too long
LineNeverTooLong(buf) == FALSE

\* line 289: the overflow guard of the line buffer
LineTooLong(buf) == Len(buf) > max_nmea_line_length

\* line 200 and line 295: the sync pair at data[i], data[i+1] (i 0-based)
SyncPairAt(data, i) ==
    /\ data[i + 1] = UBX_SYNC_CHAR_1
    /\ i + 1 < Len(data)
    /\ data[i + 2] = UBX_SYNC_CHAR_2

\* the first 0-based index j >= i with data[j] in stop, or len(data)
SkipTo(data, i, stop) ==
    LET c == {j \in i..(Len(data) - 1) : data[j + 1] \in stop}
    IN  IF c = {} THEN Len(data) ELSE CHOOSE j \in c : \A k \in c : j <= k

Min2(a, b) == IF a <= b THEN a ELSE b

RECURSIVE ScanLoop(_, _, _)
\* The while loop of lines 192-311; i is Python's 0-based index.  A run of
\* bytes that each take only the plain `i += 1` path (ignored bytes while
\* SEARCHING, line 260; bytes appended to the line while IN_NMEA, line 303)
\* is taken in one step, up to the next byte that can take another path.
ScanLoop(p, data, i) ==
    IF ~(i < Len(data)) THEN p
    ELSE
    LET byte == data[i + 1] IN
    IF p.parsing_state = "SEARCHING" THEN
        IF byte = UBX_SYNC_CHAR_1 THEN
            IF SyncPairAt(data, i) THEN
                LET staged == Slice(data, i)
                    p1 == [p EXCEPT !.ubx_partial_buffer = staged]
                IN  IF Len(staged) >= 6 /\ UbxLength(staged) > max_ubx_message_length
                    THEN ScanLoop(UbxTooLarge(p1), data, i + 2)
                    ELSE LET ubx_msg == ExtractUbxMessage(staged)
                         IN  IF ubx_msg # << >>
                             THEN ScanLoop(
                                    [p1 EXCEPT !.out = Append(@, <<"ubx", ubx_msg>>),
                                               !.ubx_error_count = 0,
                                               !.ubx_partial_buffer = << >>],
                                    data, i + Len(ubx_msg))
                             ELSE p1                       \* break
            ELSE ScanLoop(p, data, i + 1)
        ELSE IF byte = DOLLAR THEN
            ScanLoop([p EXCEPT !.parsing_state = "IN_NMEA",
                               !.nmea_line_buffer = <<byte>>], data, i + 1)
        ELSE ScanLoop(p, data, SkipTo(data, i, {UBX_SYNC_CHAR_1, DOLLAR}))
    ELSE IF p.parsing_state = "IN_NMEA" THEN
        IF byte \notin {NEWLINE, UBX_SYNC_CHAR_1}
           /\ Len(p.nmea_line_buffer) + 1 <= max_nmea_line_length
        THEN LET j == Min2(SkipTo(data, i, {NEWLINE, UBX_SYNC_CHAR_1}),
                           i + (max_nmea_line_length - Len(p.nmea_line_buffer)))
             IN  ScanLoop([p EXCEPT !.nmea_line_buffer = @ \o SubSeq(data, i + 1, j)],
                          data, j)
        ELSE
        LET p1 == [p EXCEPT !.nmea_line_buffer = Append(@, byte)]
        IN  IF byte = NEWLINE THEN ScanLoop(NmeaLineComplete(p1), data, i + 1)
            ELSE IF LineTooLong(p1.nmea_line_buffer)
            THEN ScanLoop([p1 EXCEPT !.nmea_line_buffer = << >>,
                                     !.parsing_state = "SEARCHING"], data, i + 1)
            ELSE IF SyncPairAt(data, i)
            THEN ScanLoop([p1 EXCEPT !.nmea_line_buffer = << >>,
                                     !.parsing_state = "SEARCHING"], data, i)
            ELSE ScanLoop(p1, data, i + 1)
    ELSE
        ScanLoop([p EXCEPT !.parsing_state = "SEARCHING",
                           !.nmea_line_buffer = << >>,
                           !.ubx_partial_buffer = << >>], data, i + 1)

\* lines 187-192: prepend the staged bytes, clear them, scan
ProcessData(p, chunk) ==
    ScanLoop([p EXCEPT !.ubx_partial_buffer = << >>, !.out = << >>],
             p.ubx_partial_buffer \o chunk, 0)

\* the appends of one call, per output buffer
RECURSIVE OutOf(_, _)
OutOf(out, kind) ==
    IF out = << >> THEN << >>
    ELSE IF out[1][1] = kind THEN <<out[1][2]>> \o OutOf(Tail(out), kind)
    ELSE OutOf(Tail(out), kind)

\* GNSSReader.__init__, lines 50-70
NewParser ==
    [parsing_state |-> "SEARCHING", nmea_line_buffer |-> << >>,
     ubx_partial_buffer |-> << >>, ubx_error_count |-> 0, out |-> << >>]

-----------------------------------------------------------------------------
(* The logging process before it is started: FileLogger.__init__,          *)
(* gnss_combined_service.py:67-75; gnss_file_logger.py:146-149.            *)

NoPath == << >>

ProcessDown ==
    /\ lg_pc = "down"
    /\ op_now = 0
    /\ current_hour = -1
    /\ nmea_path = NoPath /\ ubx_path = NoPath
    /\ nmea_fh = NoPath /\ ubx_fh = NoPath
    /\ arch_queue = << >>
    /\ arch_pc = "idle"
    /\ sha_out = << >>

\* the threads of the service not started: nothing buffered, nothing drained
SvcIdle ==
    /\ buffer_lock = FALSE
    /\ rd_pc = "idle" /\ rd_pending = << >> /\ nreads = 0
    /\ svc_pc = "top"
    /\ nmea_lines = << >> /\ ubx_raw = << >> /\ ubx_base64 = << >>
    /\ log_i = 0
    /\ sequence_number = 0 /\ batches_sent = 0 /\ batches_failed = 0
    /\ appended = << >> /\ drains = << >>
    /\ STOP = FALSE
    /\ consecutive_errors = 0

\* GNSSReader.__init__ (gnss_reader.py:45-47): no connection, not running
ReaderNotStarted == running = FALSE /\ serial_open = FALSE

\* after GNSSReader.start() (gnss_reader.py:121-124): the port is open and
\* the read loop runs
ReaderStarted == running = TRUE /\ serial_open = TRUE

\* no logging process, an empty disk
LogIdle ==
    /\ SvcIdle
    /\ impl = "service"
    /\ now = 0
    /\ fs = << >>
    /\ ProcessDown
    /\ ticks = 0 /\ nwrites = 0 /\ faults = 0 /\ crashes = 0
    /\ written = << >> /\ deleted = {} /\ arch_crash = {}
    /\ completed = << >>

-----------------------------------------------------------------------------
(* What the receiver can put on the serial line: whole messages, rejected  *)
(* messages and single noise bytes.  The reader sees them as one byte      *)
(* stream and reads it in chunks of any size.                              *)

MaxTokens == 2

\* a UBX frame with a correct checksum
MkFrame(class, id, payload) ==
    LET head == <<UBX_SYNC_CHAR_1, UBX_SYNC_CHAR_2, class, id,
                  Len(payload) % 256, Len(payload) \div 256>> \o payload
        ck == UbxSum(head, 3, Len(head), 0, 0)
    IN  head \o <<ck[1], ck[2]>>

\* the same frame with its last byte changed
BadFrame(class, id, payload) ==
    LET f == MkFrame(class, id, payload)
    IN  [f EXCEPT ![Len(f)] = (@ + 1) % 256]

FrameA == MkFrame(1, 0, << >>)
FrameB == MkFrame(10, 9, <<170, 187>>)
FrameBad == BadFrame(1, 0, << >>)
\* sync pair and a header that declares 2049 payload bytes
HeaderTooLarge == <<UBX_SYNC_CHAR_1, UBX_SYNC_CHAR_2, 1, 0, 1, 8>>
\* "$AB*03\r\n": 'A' xor 'B' = 0x03
SentenceOk == <<DOLLAR, 65, 66, STAR, 48, 51, 13, NEWLINE>>
\* "$AB*04\r\n"
SentenceBad == <<DOLLAR, 65, 66, STAR, 48, 52, 13, NEWLINE>>
\* "$ABCDE\r\n", no checksum field
SentencePlain == <<DOLLAR, 65, 66, 67, 68, 69, 13, NEWLINE>>

Tokens ==
    {FrameA, FrameB, FrameBad, HeaderTooLarge,
     SentenceOk, SentenceBad, SentencePlain,
     <<DOLLAR>>, <<UBX_SYNC_CHAR_1>>, <<NEWLINE>>, <<65>>, <<200>>}

ParserOf ==
    [parsing_state |-> parsing_state, nmea_line_buffer |-> nmea_line_buffer,
     ubx_partial_buffer |-> ubx_partial_buffer,
     ubx_error_count |-> ubx_error_count, out |-> << >>]

\* the state after GNSSReader.__init__
InitParser ==
    /\ parsing_state = "SEARCHING"
    /\ nmea_line_buffer = << >>
    /\ ubx_partial_buffer = << >>
    /\ ubx_error_count = 0
    /\ nmea_buffer = << >>
    /\ ubx_buffer = << >>

\* one _process_data(chunk) call of the read loop (gnss_reader.py:147-148)
Process(chunk) ==
    LET q == ProcessData(ParserOf, chunk)
    IN  /\ parsing_state' = q.parsing_state
        /\ nmea_line_buffer' = q.nmea_line_buffer
        /\ ubx_partial_buffer' = q.ubx_partial_buffer
        /\ ubx_error_count' = q.ubx_error_count
        /\ nmea_buffer' = nmea_buffer \o OutOf(q.out, "nmea")
        /\ ubx_buffer' = ubx_buffer \o OutOf(q.out, "ubx")

\* the receiver sends one more token
Arrive(t) ==
    /\ Len(sent) < MaxTokens
    /\ sent' = Append(sent, t)
    /\ wire' = wire \o t
    /\ UNCHANGED <<parserVars, split, scan_data, scan_i, logVars, svcVars>>

\* serial_conn.read(in_waiting): the k bytes that have arrived so far
Read(k) ==
    /\ k \in 1..Len(wire)
    /\ Process(Prefix(wire, k))
    /\ wire' = Slice(wire, k)
    /\ UNCHANGED <<sent, split, scan_data, scan_i, logVars, svcVars>>

Init ==
    /\ InitParser
    /\ sent = << >>
    /\ wire = << >>
    /\ split = 0 /\ scan_data = << >> /\ scan_i = 0
    /\ LogIdle
    /\ ReaderStarted

Next ==
    \/ \E t \in Tokens : Arrive(t)
    \/ \E k \in 1..Len(wire) : Read(k)

Spec == Init /\ [][Next]_vars

-----------------------------------------------------------------------------
(* SpecSplit: one checksum-valid frame, cut at one position, is handed to  *)
(* a new parser in two calls, or whole in one call.                        *)

SplitFrames ==
    {FrameA, FrameB, MkFrame(6, 1, <<7>>),
     MkFrame(2, 21, <<UBX_SYNC_CHAR_1, UBX_SYNC_CHAR_2, DOLLAR>>),
     MkFrame(5, 1, <<NEWLINE, 0>>)}

InitSplit ==
    /\ InitParser
    /\ \E f \in SplitFrames : \E k \in 1..(Len(f) - 1) :
          sent = <<f>> /\ wire = f /\ split = k /\ scan_data = << >> /\ scan_i = 0
    /\ LogIdle
    /\ ReaderStarted

\* process(F[0:k])
ReadFirst ==
    /\ wire = sent[1]
    /\ Process(Prefix(wire, split))
    /\ wire' = Slice(wire, split)
    /\ UNCHANGED <<sent, split, scan_data, scan_i, logVars, svcVars>>

\* process(F[k:])
ReadRest ==
    /\ wire # << >>
    /\ wire # sent[1]
    /\ Process(wire)
    /\ wire' = << >>
    /\ UNCHANGED <<sent, split, scan_data, scan_i, logVars, svcVars>>

\* process(F)
ReadWhole ==
    /\ wire = sent[1]
    /\ Process(wire)
    /\ wire' = << >>
    /\ UNCHANGED <<sent, split, scan_data, scan_i, logVars, svcVars>>

NextSplit == ReadFirst \/ ReadRest \/ ReadWhole

SpecSplit == InitSplit /\ [][NextSplit]_vars

-----------------------------------------------------------------------------
(* SpecBulk: a long burst on the line.  The receiver sends frames and      *)
(* blocks of max_ubx_message_length zero bytes; the reader takes what has  *)
(* arrived, or a short or a medium chunk of it.                            *)

Filler == [i \in 1..max_ubx_message_length |-> 0]

BulkTokens == {FrameA, FrameBad, Filler}

BulkChunks == {8, 500}

ReadAll == Read(Len(wire))

NextBulk ==
    \/ \E t \in BulkTokens : Arrive(t)
    \/ \E k \in BulkChunks : Read(k)
    \/ ReadAll

SpecBulk == Init /\ [][NextBulk]_vars

-----------------------------------------------------------------------------
(* Claims about the demultiplexer *)

\* what one call on a new parser appends for the whole input
WholeUbx(bytes) == OutOf(ProcessData(NewParser, bytes).out, "ubx")
WholeNmea(bytes) == OutOf(ProcessData(NewParser, bytes).out, "nmea")

\* C1 (SpecSplit): once both parts F[0:k] and F[k:] of a checksum-valid
\* frame F have been processed by a parser that started in its initial
\* state, the emitted output is the single frame F, the same as process(F)
\* emits in one call.
C1_SplitEmitsSameAsWhole ==
    wire = << >> =>
        /\ ubx_buffer = WholeUbx(sent[1])
        /\ ubx_buffer = <<sent[1]>>
        /\ nmea_buffer = << >>

\* the frame well-formedness of C2, for one emitted frame
WellFormedFrame(f) ==
    /\ Len(f) >= 8
    /\ f[1] = UBX_SYNC_CHAR_1 /\ f[2] = UBX_SYNC_CHAR_2
    /\ f[5] + 256 * f[6] <= max_ubx_message_length
    /\ Len(f) = 6 + (f[5] + 256 * f[6]) + 2
    /\ <<f[Len(f) - 1], f[Len(f)]>> = UbxSum(f, 3, Len(f) - 2, 0, 0)

\* C2 (Spec): every element of the binary output buffer starts with the
\* two sync bytes, is 6 + declared length + 2 bytes long with declared
\* length <= 2048, and ends with the running-sum checksum pair of its
\* class, id, length and payload bytes.
C2_EmittedFramesValid ==
    \A i \in 1..Len(ubx_buffer) : WellFormedFrame(ubx_buffer[i])

\* C2 witness: a frame with a wrong checksum has been read completely, and
\* the output buffer holds a frame.
C2_Witness ==
    /\ \E i \in 1..Len(sent) : sent[i] = FrameBad
    /\ wire = << >>
    /\ ubx_buffer # << >>

\* the record validity of C3: a leading '$', and with a '*' field the XOR
\* of the characters between the leading '$' and the '*' equals the value
\* of the (up to two) hex digits after the '*'
RecordChecksumOk(r) ==
    /\ r # << >> /\ r[1] = DOLLAR
    /\ CountOf(r, STAR) > 0 =>
         LET k == IndexOf(r, STAR)
             digits == Prefix(SubSeq(r, k + 1, Len(r)), 2)
         IN  /\ digits # << >>
             /\ \A j \in 1..Len(digits) : IsHexDigit(digits[j])
             /\ XorAll(SubSeq(r, 2, k - 1)) = ParseHex(digits)

\* C3 (Spec): every element of the ASCII output buffer starts with '$' and,
\* if it has a '*' checksum field, the XOR of the characters between '$'
\* and '*' equals the value of the hex digits after '*'.
C3_EmittedRecordsValid ==
    \A i \in 1..Len(nmea_buffer) : RecordChecksumOk(nmea_buffer[i])

\* the complete messages, valid or rejected, the receiver can send
Messages ==
    {FrameA, FrameB, FrameBad, HeaderTooLarge, SentenceOk, SentenceBad, SentencePlain}

IsValidFrame(t) == t \in {FrameA, FrameB}
IsValidSentence(t) == t \in {SentenceOk, SentencePlain}

\* C4 (Spec): when the stream is a sequence of complete messages, each
\* starting after the end of the previous one, and all of its bytes have
\* been passed to process(), every checksum-valid frame and every valid
\* sentence of the stream is in the Frame Buffer, in stream order.
C4_NoValidMessageDropped ==
    (wire = << >> /\ \A i \in 1..Len(sent) : sent[i] \in Messages) =>
        /\ ubx_buffer = SelectSeq(sent, IsValidFrame)
        /\ nmea_buffer = [i \in 1..Len(SelectSeq(sent, IsValidSentence)) |->
                             Strip(SelectSeq(sent, IsValidSentence)[i])]

\* C5 (SpecBulk): after every process() call the retained pending
\* binary-frame buffer is shorter than the largest legal frame.
C5_PendingShorterThanLargestFrame ==
    Len(ubx_partial_buffer) < 6 + max_ubx_message_length + 2

-----------------------------------------------------------------------------
(* FileLogger: hourly files, rotation and archival                         *)
(* (gnss_combined_service.py:61-271), and the same routines of the         *)
(* stand-alone logger (gnss_file_logger.py:51-229).                        *)
(*                                                                         *)
(* A path is <<hour, kind, extension>>, hour being the absolute UTC hour   *)
(* that YYYY/MM/DD/HH names.  The content of a log file is the sequence of *)
(* records appended to it.                                                 *)

MaxTicks == 1
MaxWrites == 1
MaxFaults == 1
MaxCrashes == 1
HoursPerDay == 24
\* by how many hours the clock can have moved on between two steps
TimeSteps == {1, 2, HoursPerDay}

\* _get_paths / path_for
SrcPath(h, kind) == <<h, kind, "">>
PathsFor(h) == <<SrcPath(h, "nmea"), SrcPath(h, "ubx")>>
ZstTmp(src) == <<src[1], src[2], ".zst.tmp">>
ZstFinal(src) == <<src[1], src[2], ".zst">>
ShaFinal(src) == <<src[1], src[2], ".zst.sha256">>
ShaTmp(src) == <<src[1], src[2], ".zst.sha256.tmp">>

\* os.path.exists
Exists(path) == path \in DOMAIN fs

\* a file system with path holding content
WithFile(f, path, content) ==
    [q \in DOMAIN f \cup {path} |-> IF q = path THEN content ELSE f[q]]

\* a file system without path
WithoutFile(f, path) == [q \in DOMAIN f \ {path} |-> f[q]]

\* open(path, "a"): creates the file when it is missing
OpenAppend(f, path) == IF path \in DOMAIN f THEN f ELSE WithFile(f, path, << >>)

\* zstd -o tmp src: the compressed form of a content
Compress(content) == <<"zst", content>>

\* sha256sum name, run in the file's directory: "<digest>  <name>"
Sha256Line(f, path) == <<"sha256", f[path], <<path[2], path[3]>>>>

\* dt.hour
HourOfDay(h) == h % HoursPerDay

\* now.replace(minute=0, second=0, microsecond=0) - timedelta(hours=1)
PrevHour(h) == h - 1

\* the process is gone: its handles and fields with it
ProcessEnds ==
    /\ lg_pc' = "down"
    /\ op_now' = 0
    /\ current_hour' = -1
    /\ nmea_path' = NoPath /\ ubx_path' = NoPath
    /\ nmea_fh' = NoPath /\ ubx_fh' = NoPath
    /\ arch_queue' = << >>
    /\ arch_pc' = "idle"
    /\ sha_out' = << >>

logHistory == <<ticks, nwrites, faults, crashes, written, deleted, arch_crash, completed>>

\* _open_files(dt) / open_current(dt), then the start of
\* _rotate_previous_hour(dt): the old handles are closed (or dropped when
\* closing raises), the pair of dt is opened for append
OpenFilesThenRotate(next_pc) ==
    /\ op_now' = now
    /\ nmea_path' = PathsFor(now)[1]
    /\ ubx_path' = PathsFor(now)[2]
    /\ nmea_fh' = PathsFor(now)[1]
    /\ ubx_fh' = PathsFor(now)[2]
    /\ fs' = OpenAppend(OpenAppend(fs, PathsFor(now)[1]), PathsFor(now)[2])
    /\ current_hour' = HourOfDay(now)
    /\ arch_queue' = PathsFor(PrevHour(now))
    /\ arch_pc' = "exists"
    /\ sha_out' = << >>
    /\ lg_pc' = next_pc

\* FileLogger.initialize (service lines 191-196; file_logger lines 168-172)
Initialize ==
    /\ UNCHANGED receiverVars
    /\ lg_pc = "down"
    /\ OpenFilesThenRotate("init_rotate")
    /\ UNCHANGED <<impl, now, logHistory>>

\* FileLogger.check_rotation when the hour differs (service lines 198-204;
\* file_logger lines 186-190)
CheckRotation ==
    /\ UNCHANGED receiverVars
    /\ lg_pc = "run"
    /\ HourOfDay(now) # current_hour
    /\ OpenFilesThenRotate("rotate")
    /\ UNCHANGED <<impl, now, logHistory>>

\* all that was ever appended to a path
AppendedTo(path) == IF path \in DOMAIN written THEN written[path] ELSE << >>

\* write_nmea / write_ubx (service lines 206-245; file_logger lines 199, 206):
\* one record appended through the open handle.  A write through a handle
\* whose file has been unlinked reaches no path.
WriteRecord(kind) ==
    LET fh == IF kind = "nmea" THEN nmea_fh ELSE ubx_fh IN
    /\ UNCHANGED receiverVars
    /\ lg_pc = "run"
    /\ nwrites < MaxWrites
    /\ fh # NoPath
    /\ nwrites' = nwrites + 1
    /\ fs' = IF Exists(fh) THEN WithFile(fs, fh, Append(fs[fh], nwrites + 1)) ELSE fs
    /\ written' = IF Exists(fh) THEN WithFile(written, fh, AppendedTo(fh) \o <<nwrites + 1>>)
                   ELSE written
    /\ UNCHANGED <<impl, now, lg_pc, op_now, current_hour, nmea_path, ubx_path,
                   nmea_fh, ubx_fh, arch_queue, arch_pc, sha_out,
                   ticks, faults, crashes, deleted, arch_crash, completed>>

\* the write raises (service lines 223-224, 244-245; file_logger 209-210):
\* the record is skipped.  file_logger writes NMEA lines outside any try
\* (line 199), so there the exception ends the process.
WriteFails(kind) ==
    /\ UNCHANGED receiverVars
    /\ lg_pc = "run"
    /\ nwrites < MaxWrites
    /\ faults < MaxFaults
    /\ (IF kind = "nmea" THEN nmea_fh ELSE ubx_fh) # NoPath
    /\ nwrites' = nwrites + 1
    /\ faults' = faults + 1
    /\ IF impl = "file_logger" /\ kind = "nmea"
       THEN ProcessEnds
       ELSE UNCHANGED <<lg_pc, op_now, current_hour, nmea_path, ubx_path,
                        nmea_fh, ubx_fh, arch_queue, arch_pc, sha_out>>
    /\ UNCHANGED <<impl, now, fs, ticks, crashes, written, deleted, arch_crash, completed>>

\* which handles stay open when flush/fsync raises during close.  The
\* service guards each handle by its own try (lines 251-265); file_logger
\* guards both by one try (lines 219-223), so a failure on the first handle
\* skips the second.
CloseOutcomes ==
    IF impl = "service"
    THEN {<<nmea_fh, NoPath>>, <<NoPath, ubx_fh>>}
    ELSE {<<nmea_fh, ubx_fh>>, <<NoPath, ubx_fh>>}

\* FileLogger.close (service lines 247-271; file_logger lines 218-229):
\* both handles are flushed, fsynced and closed, then the open pair is
\* archived
Close ==
    /\ UNCHANGED receiverVars
    /\ lg_pc = "run"
    /\ \/ /\ nmea_fh' = NoPath /\ ubx_fh' = NoPath
          /\ faults' = faults
       \/ /\ faults < MaxFaults
          /\ \E o \in CloseOutcomes : nmea_fh' = o[1] /\ ubx_fh' = o[2]
          /\ faults' = faults + 1
    /\ arch_queue' = <<nmea_path, ubx_path>>
    /\ arch_pc' = "check"
    /\ lg_pc' = "closing"
    /\ UNCHANGED <<impl, now, fs, op_now, current_hour, nmea_path, ubx_path, sha_out,
                   ticks, nwrites, crashes, written, deleted, arch_crash, completed>>

\* ---- the archival routine, one action per step --------------------------

Archiving == lg_pc \in {"init_rotate", "rotate", "closing"} /\ arch_queue # << >>
Src == Head(arch_queue)

\* the routine returns to its caller, which goes on to the next source or
\* is done
ArchReturn ==
    /\ arch_queue' = Tail(arch_queue)
    /\ IF Tail(arch_queue) # << >>
       THEN /\ arch_pc' = IF lg_pc = "closing" THEN "check" ELSE "exists"
            /\ UNCHANGED <<lg_pc, op_now, current_hour, nmea_path, ubx_path,
                           nmea_fh, ubx_fh>>
       ELSE IF lg_pc = "closing"
       THEN /\ lg_pc' = "down"                       \* the process exits
            /\ op_now' = 0 /\ current_hour' = -1
            /\ nmea_path' = NoPath /\ ubx_path' = NoPath
            /\ nmea_fh' = NoPath /\ ubx_fh' = NoPath
            /\ arch_pc' = "idle"
       ELSE /\ lg_pc' = "run"
            /\ arch_pc' = "idle"
            /\ UNCHANGED <<op_now, current_hour, nmea_path, ubx_path, nmea_fh, ubx_fh>>

\* a step order that removes the source before the finals are in place
ArchAfterRemoveEarly(step) ==
    CASE step = "compress" -> "remove"
      [] step = "remove" -> "sha"
      [] step = "sha" -> "write_sha"
      [] step = "write_sha" -> "rename_zst"
      [] step = "rename_zst" -> "rename_sha"
      [] step = "rename_sha" -> "done"

\* the step order of lines 113-142 (file_logger lines 72-105)
ArchAfter(step) ==
    CASE step = "compress" -> "sha"
      [] step = "sha" -> "write_sha"
      [] step = "write_sha" -> "rename_zst"
      [] step = "rename_zst" -> "rename_sha"
      [] step = "rename_sha" -> "remove"
      [] step = "remove" -> "done"

\* sha_out is a local of the routine: gone when it returns
ShaOutAfterStep(v) == IF ArchAfter(arch_pc) = "done" THEN << >> ELSE v

\* the step is done: on to the next one, or the routine has run to its end
ArchAdvance ==
    IF ArchAfter(arch_pc) = "done"
    THEN /\ ArchReturn
         /\ completed' = WithFile(completed, Src,
                                  IF Src \in DOMAIN completed THEN completed[Src] + 1 ELSE 1)
    ELSE /\ arch_pc' = ArchAfter(arch_pc)
         /\ UNCHANGED <<arch_queue, lg_pc, op_now, current_hour, nmea_path, ubx_path,
                        nmea_fh, ubx_fh, completed>>

\* _rotate_previous_hour: `if os.path.exists(src)` (service line 157;
\* file_logger line 119)
ArchExists ==
    /\ UNCHANGED receiverVars
    /\ Archiving /\ arch_pc = "exists"
    /\ IF Exists(Src)
       THEN /\ arch_pc' = "check"
            /\ UNCHANGED <<arch_queue, lg_pc, op_now, current_hour,
                           nmea_path, ubx_path, nmea_fh, ubx_fh>>
       ELSE ArchReturn
    /\ UNCHANGED <<impl, now, fs, sha_out, logHistory>>

\* a test that never finds the finals
FinalsNeverSeen(src) == FALSE

\* os.path.exists(zst_final) and os.path.exists(sha_final)
FinalsExist(src) == Exists(ZstFinal(src)) /\ Exists(ShaFinal(src))

\* the two early returns (service lines 106-111; file_logger lines 68-70
\* has only the first)
ArchCheck ==
    /\ UNCHANGED receiverVars
    /\ Archiving /\ arch_pc = "check"
    /\ IF FinalsExist(Src)
       THEN ArchReturn
       ELSE IF impl = "service" /\ ~Exists(Src)
       THEN ArchReturn
       ELSE /\ arch_pc' = "compress"
            /\ UNCHANGED <<arch_queue, lg_pc, op_now, current_hour,
                           nmea_path, ubx_path, nmea_fh, ubx_fh>>
    /\ UNCHANGED <<impl, now, fs, sha_out, logHistory>>

\* zstd -q -T0 -19 -f -o zst_tmp src; os.sync()
ArchCompress ==
    /\ UNCHANGED receiverVars
    /\ Archiving /\ arch_pc = "compress"
    /\ Exists(Src)
    /\ fs' = WithFile(fs, ZstTmp(Src), Compress(fs[Src]))
    /\ sha_out' = ShaOutAfterStep(sha_out)
    /\ ArchAdvance
    /\ UNCHANGED <<impl, now, ticks, nwrites, faults, crashes, written, deleted, arch_crash>>

\* sha256sum basename(zst_tmp), cwd = dirname(zst_tmp)
ArchSha ==
    /\ UNCHANGED receiverVars
    /\ Archiving /\ arch_pc = "sha"
    /\ sha_out' = ShaOutAfterStep(Sha256Line(fs, ZstTmp(Src)))
    /\ fs' = fs
    /\ ArchAdvance
    /\ UNCHANGED <<impl, now, ticks, nwrites, faults, crashes, written, deleted, arch_crash>>

\* sha_tmp is written, flushed and fsynced
ArchWriteSha ==
    /\ UNCHANGED receiverVars
    /\ Archiving /\ arch_pc = "write_sha"
    /\ fs' = WithFile(fs, ShaTmp(Src), sha_out)
    /\ sha_out' = ShaOutAfterStep(sha_out)
    /\ ArchAdvance
    /\ UNCHANGED <<impl, now, ticks, nwrites, faults, crashes, written, deleted, arch_crash>>

\* os.replace(zst_tmp, zst_final)
ArchRenameZst ==
    /\ UNCHANGED receiverVars
    /\ Archiving /\ arch_pc = "rename_zst"
    /\ Exists(ZstTmp(Src))
    /\ fs' = WithoutFile(WithFile(fs, ZstFinal(Src), fs[ZstTmp(Src)]), ZstTmp(Src))
    /\ sha_out' = ShaOutAfterStep(sha_out)
    /\ ArchAdvance
    /\ UNCHANGED <<impl, now, ticks, nwrites, faults, crashes, written, deleted, arch_crash>>

\* os.replace(sha_tmp, sha_final)
ArchRenameSha ==
    /\ UNCHANGED receiverVars
    /\ Archiving /\ arch_pc = "rename_sha"
    /\ Exists(ShaTmp(Src))
    /\ fs' = WithoutFile(WithFile(fs, ShaFinal(Src), fs[ShaTmp(Src)]), ShaTmp(Src))
    /\ sha_out' = ShaOutAfterStep(sha_out)
    /\ ArchAdvance
    /\ UNCHANGED <<impl, now, ticks, nwrites, faults, crashes, written, deleted, arch_crash>>

\* os.remove(src)
ArchRemove ==
    /\ UNCHANGED receiverVars
    /\ Archiving /\ arch_pc = "remove"
    /\ Exists(Src)
    /\ fs' = WithoutFile(fs, Src)
    /\ deleted' = deleted \cup {Src}
    /\ sha_out' = ShaOutAfterStep(sha_out)
    /\ ArchAdvance
    /\ UNCHANGED <<impl, now, ticks, nwrites, faults, crashes, written, arch_crash>>

ArchSteps == {"compress", "sha", "write_sha", "rename_zst", "rename_sha", "remove"}

\* zstd is not installed: FileNotFoundError, which both versions catch and
\* return from (service lines 146-147; file_logger lines 78-81)
ArchToolMissing ==
    /\ UNCHANGED receiverVars
    /\ Archiving /\ arch_pc = "compress"
    /\ faults < MaxFaults
    /\ faults' = faults + 1
    /\ ArchReturn
    /\ sha_out' = << >>
    /\ UNCHANGED <<impl, now, fs, ticks, nwrites, crashes, written, deleted,
                   arch_crash, completed>>

\* a step raises (a tool exits non-zero, an OSError).  The service catches
\* it in the routine and returns (lines 148-149).  file_logger does not: the
\* exception leaves the routine, and ends the process, from the main loop
\* uncaught, from the shutdown path through `except Exception: pass`
\* (lines 225-229).
ArchStepFails ==
    /\ UNCHANGED receiverVars
    /\ Archiving /\ arch_pc \in ArchSteps
    /\ faults < MaxFaults
    /\ faults' = faults + 1
    /\ IF impl = "service"
       THEN ArchReturn /\ sha_out' = << >>
       ELSE ProcessEnds
    /\ UNCHANGED <<impl, now, fs, ticks, nwrites, crashes, written, deleted,
                   arch_crash, completed>>

\* the process is killed, at any point
Crash ==
    /\ UNCHANGED receiverVars
    /\ lg_pc # "down"
    /\ crashes < MaxCrashes
    /\ crashes' = crashes + 1
    /\ arch_crash' = IF Archiving /\ arch_pc \in (ArchSteps \ {"compress"})
                     THEN arch_crash \cup {Src} ELSE arch_crash
    /\ ProcessEnds
    /\ UNCHANGED <<impl, now, fs, ticks, nwrites, faults, written, deleted, completed>>

\* the UTC clock is d hours further on: an hour has passed, or the process
\* was not scheduled, or the clock was stepped
Tick(d) ==
    /\ UNCHANGED receiverVars
    /\ ticks < MaxTicks
    /\ ticks' = ticks + 1
    /\ now' = now + d
    /\ UNCHANGED <<impl, fs, lg_pc, op_now, current_hour, nmea_path, ubx_path,
                   nmea_fh, ubx_fh, arch_queue, arch_pc, sha_out,
                   nwrites, faults, crashes, written, deleted, arch_crash, completed>>

InitLog ==
    /\ InitParser
    /\ sent = << >> /\ wire = << >> /\ split = 0 /\ scan_data = << >> /\ scan_i = 0
    /\ SvcIdle
    /\ ReaderNotStarted
    /\ impl \in {"service", "file_logger"}
    /\ now = 0
    /\ fs = << >>
    /\ ProcessDown
    /\ ticks = 0 /\ nwrites = 0 /\ faults = 0 /\ crashes = 0
    /\ written = << >> /\ deleted = {} /\ arch_crash = {}
    /\ completed = << >>

\* the steps the logging process takes by itself
LoggerStep ==
    \/ Initialize
    \/ CheckRotation
    \/ ArchExists
    \/ ArchCheck
    \/ ArchCompress
    \/ ArchSha
    \/ ArchWriteSha
    \/ ArchRenameZst
    \/ ArchRenameSha
    \/ ArchRemove

\* what its environment does: records to write, a shutdown signal, faults,
\* a kill, the clock
LoggerEnv ==
    \/ \E kind \in {"nmea", "ubx"} : WriteRecord(kind)
    \/ \E kind \in {"nmea", "ubx"} : WriteFails(kind)
    \/ Close
    \/ ArchToolMissing
    \/ ArchStepFails
    \/ Crash
    \/ \E d \in TimeSteps : Tick(d)

NextLog == LoggerStep \/ LoggerEnv

SpecLog == InitLog /\ [][NextLog]_vars

\* The logging process keeps running: a step it can take it does take, and
\* a process that is down is started again.
SpecLogFair == SpecLog /\ WF_vars(LoggerStep)

\* ---- properties of the archival ------------------------------------------

Archived(src) == Exists(ZstFinal(src)) /\ Exists(ShaFinal(src))

\* C8: a source file has been deleted only if its final compressed artifact
\* and its final checksum sidecar both exist, in every reachable state,
\* those after a crash at any step and a re-run included.
C8_DeletedOnlyAfterFinals == \A src \in deleted : Archived(src)

\* a source whose archival was cut by a crash, and was deleted by a re-run
C8_Witness == \E src \in deleted \cap arch_crash : ~Exists(src)

Hours == 0 .. (MaxTicks * HoursPerDay)
LogPaths == {SrcPath(h, kind) : h \in Hours, kind \in {"nmea", "ubx"}}

\* the hour of the file is over and the file received writes
HourOverWithWrites(src) == src \in DOMAIN written /\ src[1] < now

\* C9: every hourly file that received writes is archived exactly once
\* across restarts: once its hour is over, and the process keeps running or
\* is started again, its final artifact and sidecar eventually exist (runs
\* in which a tool or a file operation failed are excused), and no file is
\* archived successfully more than once.
C9_ArchivedExactlyOnce ==
    /\ \A src \in LogPaths :
          (HourOverWithWrites(src) /\ faults = 0) ~> (Archived(src) \/ faults > 0)
    /\ [](\A src \in DOMAIN completed : completed[src] <= 1)

\* a written file two hours or more behind the clock, not archived, not the
\* open pair and not in the hands of the archival routine
Stranded(src) ==
    /\ HourOverWithWrites(src) /\ src[1] + 1 < now
    /\ ~Archived(src)
    /\ src \notin {nmea_path, ubx_path}
    /\ \A i \in 1..Len(arch_queue) : arch_queue[i] # src

\* no step of the logger or of its environment gets a stranded file out of
\* that state: rotation and initialize look at the pair of now - 1 only
StrandedStaysStranded ==
    [][\A src \in LogPaths : Stranded(src) => Stranded(src)']_vars

\* C10: the archival routine never works on a file the logger holds an open
\* write handle on.  Stated on the states in which the routine has already
\* compressed the file and goes on to checksum, rename and delete.
C10_NeverArchivesOpenFile ==
    (Archiving /\ arch_pc \in (ArchSteps \ {"compress"}))
        => Src \notin {nmea_fh, ubx_fh}

-----------------------------------------------------------------------------
(* CombinedService: the reader thread appends to the two output buffers    *)
(* under buffer_lock, the service thread drains them under the same lock   *)
(* and hands each drain to the network sender and to the file logger.      *)
(* Each thread takes one step per statement that touches shared state.     *)

MaxReads == 2
MaxDrains == 2

FrameC == MkFrame(2, 3, <<7>>)

\* what one serial read can return here: one sentence, one frame, or
\* several messages at once
SvcChunks == {SentenceOk, FrameA, FrameB \o SentenceOk \o FrameC}

\* a lock that is never seen as held
LockAlwaysFree == TRUE

\* `with self.buffer_lock:` can be entered
LockFree == ~buffer_lock

\* the base64 alphabet of RFC 4648, as ASCII codes
Base64Char(v) ==
    IF v < 26 THEN 65 + v
    ELSE IF v < 52 THEN 97 + (v - 26)
    ELSE IF v < 62 THEN 48 + (v - 52)
    ELSE IF v = 62 THEN 43 ELSE 47

RECURSIVE Base64Truncating(_)
\* an encoder that drops the last, partial group of bytes
Base64Truncating(b) ==
    IF Len(b) < 3 THEN << >>
    ELSE <<Base64Char(b[1] \div 4),
           Base64Char((b[1] % 4) * 16 + (b[2] \div 16)),
           Base64Char((b[2] % 16) * 4 + (b[3] \div 64)),
           Base64Char(b[3] % 64)>> \o Base64Truncating(Slice(b, 3))

RECURSIVE Base64(_)
\* base64.b64encode(msg).decode('ascii'): 3 bytes to 4 characters, the last
\* group padded with '='
Base64(b) ==
    IF Len(b) = 0 THEN << >>
    ELSE IF Len(b) = 1
    THEN <<Base64Char(b[1] \div 4), Base64Char((b[1] % 4) * 16), 61, 61>>
    ELSE IF Len(b) = 2
    THEN <<Base64Char(b[1] \div 4),
           Base64Char((b[1] % 4) * 16 + (b[2] \div 16)),
           Base64Char((b[2] % 16) * 4), 61>>
    ELSE <<Base64Char(b[1] \div 4),
           Base64Char((b[1] % 4) * 16 + (b[2] \div 16)),
           Base64Char((b[2] % 16) * 4 + (b[3] \div 64)),
           Base64Char(b[3] % 64)>> \o Base64(Slice(b, 3))

\* [base64.b64encode(msg).decode('ascii') for msg in ubx_raw]
EncodeAll(frames) == [i \in 1..Len(frames) |-> Base64(frames[i])]

\* the file logger as initialize() leaves it at hour 0 on an empty disk
LoggerRunning ==
    /\ impl = "service"
    /\ now = 0
    /\ fs = OpenAppend(OpenAppend(<< >>, PathsFor(0)[1]), PathsFor(0)[2])
    /\ lg_pc = "run"
    /\ op_now = 0
    /\ current_hour = 0
    /\ nmea_path = PathsFor(0)[1] /\ ubx_path = PathsFor(0)[2]
    /\ nmea_fh = PathsFor(0)[1] /\ ubx_fh = PathsFor(0)[2]
    /\ arch_queue = << >>
    /\ arch_pc = "idle"
    /\ sha_out = << >>
    /\ ticks = 0 /\ nwrites = 0 /\ faults = 0 /\ crashes = 0
    /\ written = << >> /\ deleted = {} /\ arch_crash = {}
    /\ completed = << >>

svcLocals == <<nmea_lines, ubx_raw, ubx_base64, log_i>>
senderVars == <<sequence_number, batches_sent, batches_failed>>
readerVars == <<rd_pc, rd_pending, nreads>>

\* ---- the reader thread ---------------------------------------------------

\* a loop that keeps its error count over a successful read
ErrorsKeptAfterRead(n) == n

\* consecutive_errors = 0  # Reset on successful read (line 149)
ErrorsAfterRead(n) == 0

\* _read_loop: one serial read, handed to _process_data.  The parser fields
\* belong to this thread alone; what the others can see of the call is the
\* appends, so the messages of the chunk are queued and appended one by one.
ReaderRead(chunk) ==
    /\ rd_pc = "idle" /\ rd_pending = << >>
    /\ running /\ serial_open
    /\ nreads < MaxReads
    /\ nreads' = nreads + 1
    /\ consecutive_errors' = ErrorsAfterRead(consecutive_errors)
    /\ LET p == ProcessData(ParserOf, chunk) IN
         /\ parsing_state' = p.parsing_state
         /\ nmea_line_buffer' = p.nmea_line_buffer
         /\ ubx_partial_buffer' = p.ubx_partial_buffer
         /\ ubx_error_count' = p.ubx_error_count
         /\ rd_pending' = p.out
    /\ UNCHANGED <<STOP, running, serial_open,
                   nmea_buffer, ubx_buffer, lineVars, logVars, buffer_lock, rd_pc,
                   svc_pc, svcLocals, senderVars, appended, drains>>

\* a buffer that takes a new record at its front
ListInsertFirst(buf, rec) == <<rec>> \o buf

\* list.append (lines 236, 277)
ListAppend(buf, rec) == Append(buf, rec)

\* `with self.buffer_lock:` entered (lines 235, 276)
ReaderAcquire ==
    /\ rd_pc = "idle" /\ rd_pending # << >>
    /\ LockFree
    /\ buffer_lock' = TRUE
    /\ rd_pc' = "locked"
    /\ UNCHANGED <<runVars, parserVars, lineVars, logVars, rd_pending, nreads,
                   svc_pc, svcLocals, senderVars, appended, drains>>

\* self.ubx_buffer.append(ubx_msg) / self.nmea_buffer.append(nmea_line)
ReaderAppend ==
    /\ rd_pc = "locked"
    /\ LET m == Head(rd_pending) IN
         /\ nmea_buffer' = IF m[1] = "nmea" THEN ListAppend(nmea_buffer, m[2]) ELSE nmea_buffer
         /\ ubx_buffer' = IF m[1] = "ubx" THEN ListAppend(ubx_buffer, m[2]) ELSE ubx_buffer
         /\ appended' = Append(appended, m)
    /\ rd_pending' = Tail(rd_pending)
    /\ rd_pc' = "appended"
    /\ UNCHANGED <<runVars, parsing_state, nmea_line_buffer, ubx_partial_buffer, ubx_error_count,
                   lineVars, logVars, buffer_lock, nreads,
                   svc_pc, svcLocals, senderVars, drains>>

\* the `with` block is left
ReaderRelease ==
    /\ rd_pc = "appended"
    /\ buffer_lock' = FALSE
    /\ rd_pc' = "idle"
    /\ UNCHANGED <<runVars, parserVars, lineVars, logVars, rd_pending, nreads,
                   svc_pc, svcLocals, senderVars, appended, drains>>

\* ---- the service thread: get_buffered_data_with_raw_ubx ------------------

\* run(), lines 389-397: check_rotation finds the hour unchanged, the send
\* interval has elapsed, and the drain enters `with self.buffer_lock:`
SvcBeginDrain ==
    /\ svc_pc = "top"
    /\ ~STOP
    /\ Len(drains) < MaxDrains
    /\ lg_pc = "run" /\ HourOfDay(now) = current_hour
    /\ LockFree
    /\ buffer_lock' = TRUE
    /\ svc_pc' = "copy_nmea"
    /\ UNCHANGED <<runVars, parserVars, lineVars, logVars, readerVars,
                   svcLocals, senderVars, appended, drains>>

\* nmea_lines = self.nmea_buffer.copy()
SvcCopyNmea ==
    /\ svc_pc = "copy_nmea"
    /\ nmea_lines' = nmea_buffer
    /\ svc_pc' = "copy_ubx"
    /\ UNCHANGED <<runVars, parserVars, lineVars, logVars, readerVars, buffer_lock,
                   ubx_raw, ubx_base64, log_i, senderVars, appended, drains>>

\* ubx_raw = self.ubx_buffer.copy()
SvcCopyUbx ==
    /\ svc_pc = "copy_ubx"
    /\ ubx_raw' = ubx_buffer
    /\ svc_pc' = "encode"
    /\ UNCHANGED <<runVars, parserVars, lineVars, logVars, readerVars, buffer_lock,
                   nmea_lines, ubx_base64, log_i, senderVars, appended, drains>>

\* ubx_base64 = [base64.b64encode(msg).decode('ascii') for msg in ubx_raw]
SvcEncode ==
    /\ svc_pc = "encode"
    /\ ubx_base64' = EncodeAll(ubx_raw)
    /\ svc_pc' = "clear_nmea"
    /\ UNCHANGED <<runVars, parserVars, lineVars, logVars, readerVars, buffer_lock,
                   nmea_lines, ubx_raw, log_i, senderVars, appended, drains>>

\* a drain that leaves the records in the buffer
Kept(buf) == buf

\* list.clear()
Cleared(buf) == << >>

\* self.nmea_buffer.clear()
SvcClearNmea ==
    /\ svc_pc = "clear_nmea"
    /\ nmea_buffer' = Cleared(nmea_buffer)
    /\ svc_pc' = "clear_ubx"
    /\ UNCHANGED <<runVars, parsing_state, nmea_line_buffer, ubx_partial_buffer, ubx_error_count,
                   ubx_buffer, lineVars, logVars, readerVars, buffer_lock,
                   svcLocals, senderVars, appended, drains>>

\* self.ubx_buffer.clear()
SvcClearUbx ==
    /\ svc_pc = "clear_ubx"
    /\ ubx_buffer' = Cleared(ubx_buffer)
    /\ svc_pc' = "release"
    /\ UNCHANGED <<runVars, parsing_state, nmea_line_buffer, ubx_partial_buffer, ubx_error_count,
                   nmea_buffer, lineVars, logVars, readerVars, buffer_lock,
                   svcLocals, senderVars, appended, drains>>

\* where run() goes once write_nmea has been called on the lines before i
AfterNmeaLoop(i) ==
    IF i <= Len(nmea_lines) THEN "log_nmea"
    ELSE IF ubx_raw # << >> THEN "log_ubx" ELSE "top"

\* the `with` block is left and the drain returns its three lists; run()
\* goes on to `if nmea_lines or ubx_base64:` (line 400)
SvcRelease ==
    /\ svc_pc = "release"
    /\ buffer_lock' = FALSE
    /\ drains' = Append(drains, [nmea |-> nmea_lines, b64 |-> ubx_base64,
                                 raw |-> ubx_raw, net |-> << >>, log |-> << >>])
    /\ svc_pc' = IF nmea_lines # << >> \/ ubx_base64 # << >> THEN "send" ELSE "top"
    /\ UNCHANGED <<runVars, parserVars, lineVars, logVars, readerVars,
                   svcLocals, senderVars, appended>>

\* the record of the drain in hand, with one more hand-off noted
NoteNet(batch) ==
    [drains EXCEPT ![Len(drains)].net = Append(@, batch)]
NoteLog(kind, rec) ==
    [drains EXCEPT ![Len(drains)].log = Append(@, <<kind, rec>>)]

\* what a post can come to: status 202, another status, or a
\* requests.exceptions.RequestException
SendOutcomes == {"accepted", "rejected", "error"}

\* a run() that writes the log only when the batch was accepted
AfterSendIfAccepted(outcome) ==
    IF outcome = "accepted" THEN AfterNmeaLoop(1) ELSE "top"

\* send_batch has returned True or False; run() drops the value and goes
\* on to the two write loops (lines 401-408)
AfterSend(outcome) == AfterNmeaLoop(1)

\* a counter that moves on only when the batch was accepted
SequenceAfterAccepted(outcome) ==
    IF outcome = "accepted" THEN sequence_number + 1 ELSE sequence_number

\* self.sequence_number += 1, the first statement of send_batch (line 302)
\* and of create_batch (sender.py:61), before anything is posted
SequenceAfter(outcome) == sequence_number + 1

\* the batch as posted: nmea_raw, ubx_raw and sequence_number, the last
\* read after the increment; with it, what became of the post
PostedBatch(lines, b64, outcome) ==
    <<lines, b64, SequenceAfter(outcome), outcome>>

\* NetworkSender.send_batch(nmea_lines, ubx_base64): the batch is posted;
\* the server accepts it (202), rejects it, or the request fails
SvcSend(outcome) ==
    /\ svc_pc = "send"
    /\ sequence_number' = SequenceAfter(outcome)
    /\ batches_sent' = IF outcome = "accepted" THEN batches_sent + 1 ELSE batches_sent
    /\ batches_failed' = IF outcome = "accepted" THEN batches_failed ELSE batches_failed + 1
    /\ drains' = NoteNet(PostedBatch(nmea_lines, ubx_base64, outcome))
    /\ log_i' = 1
    /\ svc_pc' = AfterSend(outcome)
    /\ UNCHANGED <<runVars, parserVars, lineVars, logVars, readerVars, buffer_lock,
                   nmea_lines, ubx_raw, ubx_base64, appended>>

\* the record reaches the disk through the handle, if there is one and its
\* file is still linked
FileAfterWrite(fh, rec) ==
    IF fh # NoPath /\ Exists(fh) THEN WithFile(fs, fh, Append(fs[fh], rec)) ELSE fs
WrittenAfterWrite(fh, rec) ==
    IF fh # NoPath /\ Exists(fh) THEN WithFile(written, fh, AppendedTo(fh) \o <<rec>>)
    ELSE written

\* for nmea_line in nmea_lines: self.logger.write_nmea(nmea_line, now)
SvcLogNmea ==
    /\ svc_pc = "log_nmea"
    /\ drains' = NoteLog("nmea", nmea_lines[log_i])
    /\ fs' = FileAfterWrite(nmea_fh, <<now, nmea_lines[log_i]>>)
    /\ written' = WrittenAfterWrite(nmea_fh, <<now, nmea_lines[log_i]>>)
    /\ log_i' = IF AfterNmeaLoop(log_i + 1) = "log_nmea" THEN log_i + 1 ELSE 1
    /\ svc_pc' = AfterNmeaLoop(log_i + 1)
    /\ UNCHANGED <<runVars, parserVars, lineVars, readerVars, buffer_lock,
                   nmea_lines, ubx_raw, ubx_base64, senderVars, appended,
                   impl, now, lg_pc, op_now, current_hour, nmea_path, ubx_path,
                   nmea_fh, ubx_fh, arch_queue, arch_pc, sha_out,
                   ticks, nwrites, faults, crashes, deleted, arch_crash, completed>>

\* for ubx_msg in ubx_raw: self.logger.write_ubx(ubx_msg, now)
SvcLogUbx ==
    /\ svc_pc = "log_ubx"
    /\ drains' = NoteLog("ubx", ubx_raw[log_i])
    /\ fs' = FileAfterWrite(ubx_fh, <<now, ubx_raw[log_i]>>)
    /\ written' = WrittenAfterWrite(ubx_fh, <<now, ubx_raw[log_i]>>)
    /\ log_i' = IF log_i < Len(ubx_raw) THEN log_i + 1 ELSE 1
    /\ svc_pc' = IF log_i < Len(ubx_raw) THEN "log_ubx" ELSE "top"
    /\ UNCHANGED <<runVars, parserVars, lineVars, readerVars, buffer_lock,
                   nmea_lines, ubx_raw, ubx_base64, senderVars, appended,
                   impl, now, lg_pc, op_now, current_hour, nmea_path, ubx_path,
                   nmea_fh, ubx_fh, arch_queue, arch_pc, sha_out,
                   ticks, nwrites, faults, crashes, deleted, arch_crash, completed>>

InitSvc ==
    /\ InitParser
    /\ sent = << >> /\ wire = << >> /\ split = 0 /\ scan_data = << >> /\ scan_i = 0
    /\ SvcIdle
    /\ ReaderStarted
    /\ LoggerRunning

NextSvc ==
    \/ \E chunk \in SvcChunks : ReaderRead(chunk)
    \/ ReaderAcquire
    \/ ReaderAppend
    \/ ReaderRelease
    \/ SvcBeginDrain
    \/ SvcCopyNmea
    \/ SvcCopyUbx
    \/ SvcEncode
    \/ SvcClearNmea
    \/ SvcClearUbx
    \/ SvcRelease
    \/ \E outcome \in SendOutcomes : SvcSend(outcome)
    \/ SvcLogNmea
    \/ SvcLogUbx

SpecSvc == InitSvc /\ [][NextSvc]_vars

\* ---- properties of the buffer and of the hand-off -------------------------

RECURSIVE Flat(_)
Flat(ss) == IF ss = << >> THEN << >> ELSE Head(ss) \o Flat(Tail(ss))

DrainedNmea == Flat([i \in 1..Len(drains) |-> drains[i].nmea])
DrainedUbx == Flat([i \in 1..Len(drains) |-> drains[i].raw])
InDrain == svc_pc \in {"copy_nmea", "copy_ubx", "encode", "clear_nmea",
                       "clear_ubx", "release"}

\* C6: under every interleaving of the reader's appends and the service's
\* drains, the records appended to each buffer are, in append order, the
\* records returned by the drains so far followed by the records still
\* buffered (so each record is returned by one drain, none is lost or
\* repeated, and a drain returns all that was buffered when it took the
\* lock), and when a drain completes both buffers are empty.
C6_DrainReturnsAllOnce ==
    /\ ~InDrain =>
         /\ OutOf(appended, "nmea") = DrainedNmea \o nmea_buffer
         /\ OutOf(appended, "ubx") = DrainedUbx \o ubx_buffer
    /\ svc_pc = "release" =>
         /\ nmea_buffer = << >> /\ ubx_buffer = << >>
         /\ OutOf(appended, "nmea") = DrainedNmea \o nmea_lines
         /\ OutOf(appended, "ubx") = DrainedUbx \o ubx_raw

\* two drains have returned records, the second between two appends of one
\* chunk
C6_Witness ==
    /\ Len(drains) = 2
    /\ drains[1].nmea # << >> \/ drains[1].raw # << >>
    /\ drains[2].nmea # << >> \/ drains[2].raw # << >>
    /\ rd_pending # << >>

Base64Value(c) ==
    IF c >= 65 /\ c <= 90 THEN c - 65
    ELSE IF c >= 97 /\ c <= 122 THEN c - 97 + 26
    ELSE IF c >= 48 /\ c <= 57 THEN c - 48 + 52
    ELSE IF c = 43 THEN 62 ELSE 63

RECURSIVE Base64Decode(_)
\* the bytes a base64 text stands for
Base64Decode(t) ==
    IF Len(t) < 4 THEN << >>
    ELSE LET v1 == Base64Value(t[1])
             v2 == Base64Value(t[2])
             v3 == Base64Value(t[3])
             v4 == Base64Value(t[4])
             b1 == v1 * 4 + (v2 \div 16)
             b2 == (v2 % 16) * 16 + (v3 \div 4)
             b3 == (v3 % 4) * 64 + v4
         IN IF t[3] = 61 THEN <<b1>>
            ELSE IF t[4] = 61 THEN <<b1, b2>>
            ELSE <<b1, b2, b3>> \o Base64Decode(Slice(t, 4))

\* the drains whose loop iteration has run to its end
DoneDrains == IF svc_pc \in {"send", "log_nmea", "log_ubx"}
              THEN 1 .. Len(drains) - 1 ELSE 1 .. Len(drains)

\* C7: for every drain of the service loop, the ASCII records handed to the
\* network sender are exactly those handed to the file logger, the i-th
\* encoded frame handed to the sender is the base64 text of the i-th raw
\* frame handed to the logger, and no record of the drain reaches a consumer
\* twice (an empty drain reaches neither).
C7_BothConsumersGetTheDrain ==
    \A d \in DoneDrains :
        LET r == drains[d] IN
        IF r.nmea = << >> /\ r.raw = << >>
        THEN r.net = << >> /\ r.log = << >>
        ELSE /\ Len(r.net) = 1
             /\ r.net[1][1] = r.nmea
             /\ OutOf(r.log, "nmea") = r.nmea
             /\ OutOf(r.log, "ubx") = r.raw
             /\ Len(r.net[1][2]) = Len(r.raw)
             /\ \A i \in 1..Len(r.raw) : Base64Decode(r.net[1][2][i]) = r.raw[i]

\* a finished iteration that handed on a sentence and two frames
C7_Witness ==
    \E d \in DoneDrains :
        /\ drains[d].nmea # << >>
        /\ Len(drains[d].raw) >= 2
        /\ Len(drains[d].log) = 3
        /\ Len(drains[d].net) = 1

-----------------------------------------------------------------------------
(* Further properties of the archival routine *)

\* C11: archival is idempotent.  No compression, checksum or rename step is
\* ever taken on a source whose final artifact and sidecar both exist, and
\* the run of the routine that finds both leaves every file as it is (the
\* finals byte-identical, the source, if present, untouched) and returns.
C11_ArchivalIdempotent ==
    /\ [](Archiving /\ arch_pc \in (ArchSteps \ {"remove"}) => ~Archived(Src))
    /\ [][(Archiving /\ arch_pc = "check" /\ Archived(Src))
             => (fs' = fs /\ ~(arch_queue' = arch_queue /\ arch_pc' \in ArchSteps))]_vars

\* close() has run the routine on the NMEA file, whose finals existed while
\* the source was still there, and the routine has returned leaving all three
C11_Witness ==
    /\ lg_pc = "closing" /\ arch_queue = <<ubx_path>>
    /\ faults = 0
    /\ Archived(nmea_path) /\ Exists(nmea_path)

\* zstd -d: the content a compressed artifact stands for
Decompress(blob) == blob[2]

\* C12: whenever the final compressed artifact of a log segment exists,
\* decompressing it yields exactly the bytes of the source, and these are all
\* the bytes that were appended to that segment.  Stated for the segments
\* whose archival has run to its end (artifact and sidecar both in place).
C12_ArchiveHoldsAllAppended ==
    \A src \in LogPaths :
        Archived(src) => Decompress(fs[ZstFinal(src)]) = AppendedTo(src)

\* C13: after a crash at any point of the archival sequence before both
\* renames have completed, no final artifact is visible: neither the final
\* compressed file nor the final sidecar exists without the other.
C13_NoPartialFinalAfterCrash ==
    (lg_pc = "down" /\ crashes > 0 /\ faults = 0) =>
        \A src \in LogPaths : Exists(ZstFinal(src)) <=> Exists(ShaFinal(src))

-----------------------------------------------------------------------------
(* The parser on chunks that open with a sync pair and an oversized        *)
(* declared length: the two sync bytes, then a message or noise, then more. *)

MaxResyncReads == 2

\* what can follow the sync pair; bytes 4 and 5 of the chunk then read as a
\* length above max_ubx_message_length
Followers == {FrameB, SentenceOk, <<1, 0, 1, 8>>}
Trailers == {<< >>, FrameA,
             HeaderTooLarge \o HeaderTooLarge \o HeaderTooLarge \o HeaderTooLarge}
SyncPair == <<UBX_SYNC_CHAR_1, UBX_SYNC_CHAR_2>>

\* a read can end right after the sync pair, start right after it, or hold
\* all of it
ResyncChunks ==
    {SyncPair}
    \cup {f \o t : f \in Followers, t \in Trailers}
    \cup {SyncPair \o f \o t : f \in Followers, t \in Trailers}

\* _read_loop: one read, handed to _process_data
ReadChunk(c) ==
    /\ Len(sent) < MaxResyncReads
    /\ Process(c)
    /\ sent' = Append(sent, c)
    /\ UNCHANGED <<wire, split, scan_data, scan_i, logVars, svcVars>>

NextResync == \E c \in ResyncChunks : ReadChunk(c)

SpecResync == Init /\ [][NextResync]_vars

\* the data the scan runs over opens with the sync pair and a header whose
\* declared length exceeds the maximum
OversizedAtStart(d) ==
    /\ Len(d) >= 6
    /\ d[1] = 181 /\ d[2] = 98
    /\ d[5] + 256 * d[6] > 2048

\* the message that starts at byte 2 of the data, if one of these does
FollowerAt(d, f) == Len(d) >= 2 + Len(f) /\ SubSeq(d, 3, 2 + Len(f)) = f

\* C14: a parser in Searching state that meets the sync pair followed by a
\* header whose declared length exceeds 2048 emits no frame for it, clears
\* the pending buffer, consumes exactly the two sync bytes and goes on
\* scanning the rest of the same data: the call ends as a call on the data
\* without its first two bytes would, from an empty pending buffer and the
\* error count raised by one (reset at 5), and a valid frame or sentence
\* that starts right after the two bytes is emitted by this same call.
C14_OversizedSkipsTwoBytes ==
    [][\A c \in ResyncChunks :
         LET d == ubx_partial_buffer \o c
             n == ubx_error_count + 1
             q == ProcessData([parsing_state |-> "SEARCHING",
                               nmea_line_buffer |-> nmea_line_buffer,
                               ubx_partial_buffer |-> << >>,
                               ubx_error_count |-> IF n >= 5 THEN 0 ELSE n,
                               out |-> << >>], Slice(d, 2))
         IN  (sent' = Append(sent, c) /\ parsing_state = "SEARCHING"
              /\ OversizedAtStart(d))
             => /\ parsing_state' = q.parsing_state
                /\ nmea_line_buffer' = q.nmea_line_buffer
                /\ ubx_partial_buffer' = q.ubx_partial_buffer
                /\ ubx_error_count' = q.ubx_error_count
                /\ nmea_buffer' = nmea_buffer \o OutOf(q.out, "nmea")
                /\ ubx_buffer' = ubx_buffer \o OutOf(q.out, "ubx")
                /\ FollowerAt(d, FrameB) =>
                     /\ Len(ubx_buffer') > Len(ubx_buffer)
                     /\ ubx_buffer'[Len(ubx_buffer) + 1] = FrameB
                /\ FollowerAt(d, SentenceOk) =>
                     /\ Len(nmea_buffer') > Len(nmea_buffer)
                     /\ nmea_buffer'[Len(nmea_buffer) + 1] = Prefix(SentenceOk, 6)
                /\ FollowerAt(d, <<1, 0, 1, 8>>) /\ Len(d) = 6 =>
                     /\ ubx_partial_buffer' = << >>
                     /\ nmea_buffer' = nmea_buffer /\ ubx_buffer' = ubx_buffer
      ]_vars

\* one call on the sync pair, a frame right after it and a second frame has
\* emitted both frames
C14_Witness ==
    /\ sent = <<SyncPair \o FrameB \o FrameA>>
    /\ ubx_buffer = <<FrameB, FrameA>> /\ ubx_partial_buffer = << >>
    /\ ubx_error_count = 0


-----------------------------------------------------------------------------
(* SpecSentence: the receiver sends whole checksummed sentences and the    *)
(* reader takes everything that has arrived in one chunk.                  *)

MaxBody == 3

\* the characters of a sentence body: 'A', 'B' and ','
BodyChars == {65, 66, 44}

SentenceBodies ==
    UNION {[1..n -> BodyChars] : n \in 1..MaxBody}

\* one upper-case hexadecimal digit
HexChar(v) == IF v < 10 THEN 48 + v ELSE 55 + v

\* "$" body "*" HH CR LF, HH the XOR of the body in hexadecimal
MkSentence(body) ==
    LET x == XorAll(body)
    IN  <<DOLLAR>> \o body \o <<STAR, HexChar(x \div 16), HexChar(x % 16), 13, NEWLINE>>

ValidSentences == {MkSentence(b) : b \in SentenceBodies}

\* the sentence without its trailing CR LF
SentenceText(s) == Prefix(s, Len(s) - 2)

NextSentence ==
    \/ \E s \in ValidSentences : Arrive(s)
    \/ ReadAll

SpecSentence == Init /\ [][NextSentence]_vars

\* C15: every checksum-valid "$...*HH\r\n" sentence fed to a parser in the
\* Searching state is appended as exactly one ASCII record, the sentence
\* without its CR LF, and the parser is back in Searching with an empty
\* line buffer.  Once the reader has taken all that was sent, the ASCII
\* buffer holds the texts of the sentences sent, in order.
C15_ValidSentenceAppendedOnce ==
    (wire = << >>) =>
        /\ nmea_buffer = [i \in 1..Len(sent) |-> SentenceText(sent[i])]
        /\ parsing_state = "SEARCHING"
        /\ nmea_line_buffer = << >>

-----------------------------------------------------------------------------
(* A whole frame at the head of a chunk *)

ValidFrames == {FrameA, FrameB}

\* the chunk the reader takes is frame f followed by other bytes
ChunkStartsWith(f) ==
    /\ Len(wire) >= Len(f)
    /\ Prefix(wire, Len(f)) = f
    /\ wire' = << >>

\* this call appends f, all of it and nothing more, and scans what follows
\* f in the chunk as the start of the next message
FrameThenRest(f) ==
    LET rest == Slice(wire, Len(f))
    IN  /\ ubx_buffer' = ubx_buffer \o <<f>> \o WholeUbx(rest)
        /\ nmea_buffer' = nmea_buffer \o WholeNmea(rest)

\* C16: a complete checksum-valid frame fed to a parser in the Searching
\* state is appended exactly once, as the 6 + length + 2 bytes from the
\* first sync byte to ck_b, and the bytes after it in the chunk are scanned
\* as the start of the next message.
C16_ValidFrameAppendedOnce ==
    [][\A f \in ValidFrames :
          (parsing_state = "SEARCHING" /\ ChunkStartsWith(f)) => FrameThenRest(f)]_vars

\* the same with nothing staged from earlier chunks
FrameAppendedWhenNothingPending ==
    [][\A f \in ValidFrames :
          (parsing_state = "SEARCHING" /\ ubx_partial_buffer = << >> /\ ChunkStartsWith(f))
              => (FrameThenRest(f) /\ Len(f) = 6 + UbxLength(f) + 2)]_vars

-----------------------------------------------------------------------------
(* SpecRun: the life of CombinedService.run() from the first pass of its   *)
(* loop to the end of shutdown(), with the reader thread beside it.  The   *)
(* clock stays within the hour.                                            *)

max_consecutive_errors == 10

\* one message per read
RunChunks == {SentenceOk, FrameA}

\* signal_handler (gnss_combined_service.py:50-54): SIGINT or SIGTERM
SignalStop ==
    /\ ~STOP
    /\ STOP' = TRUE
    /\ UNCHANGED <<parserVars, lineVars, logVars, buffer_lock, readerVars, svc_pc,
                   svcLocals, senderVars, appended, drains,
                   running, serial_open, consecutive_errors>>

\* ---- the reader thread: _read_loop, gnss_reader.py:143-173 ---------------

\* the loop has ended and the thread with it
ReaderEnded == rd_pc = "ended"

\* the read raises (lines 153-171): the error is logged and counted, and at
\* max_consecutive_errors the loop is left by `break`
ReaderReadError ==
    /\ rd_pc = "idle" /\ rd_pending = << >>
    /\ running /\ serial_open
    /\ consecutive_errors' = consecutive_errors + 1
    /\ rd_pc' = IF consecutive_errors + 1 >= max_consecutive_errors THEN "ended" ELSE "idle"
    /\ UNCHANGED <<parserVars, lineVars, logVars, buffer_lock, rd_pending, nreads, svc_pc,
                   svcLocals, senderVars, appended, drains, STOP, running, serial_open>>

\* the loop condition of line 143 is false: the loop ends
ReaderLoopEnds ==
    /\ rd_pc = "idle" /\ rd_pending = << >>
    /\ ~(running /\ serial_open)
    /\ rd_pc' = "ended"
    /\ UNCHANGED <<parserVars, lineVars, logVars, buffer_lock, rd_pending, nreads, svc_pc,
                   svcLocals, senderVars, appended, drains, runVars>>

\* ---- the service thread: run() and shutdown() ----------------------------

\* the loop of run() is being executed
InServiceLoop ==
    svc_pc \in {"top", "sleep", "copy_nmea", "copy_ubx", "encode", "clear_nmea",
                "clear_ubx", "release", "send", "log_nmea", "log_ubx"}

\* a pass of the loop in which the send interval has not elapsed: nothing
\* but time.sleep(0.1) (lines 389-395, 417)
SvcSleep ==
    /\ svc_pc = "top"
    /\ ~STOP
    /\ svc_pc' = "sleep"
    /\ UNCHANGED <<parserVars, lineVars, logVars, buffer_lock, readerVars,
                   svcLocals, senderVars, appended, drains, runVars>>

SvcWake ==
    /\ svc_pc = "sleep"
    /\ svc_pc' = "top"
    /\ UNCHANGED <<parserVars, lineVars, logVars, buffer_lock, readerVars,
                   svcLocals, senderVars, appended, drains, runVars>>

\* `while not STOP` is false (line 389): the loop is left and the finally
\* clause calls shutdown() (lines 423-424)
SvcExitLoop ==
    /\ svc_pc = "top"
    /\ STOP
    /\ svc_pc' = "shutdown"
    /\ UNCHANGED <<parserVars, lineVars, logVars, buffer_lock, readerVars,
                   svcLocals, senderVars, appended, drains, runVars>>

\* GNSSReader.stop(): self.running = False (gnss_reader.py:129)
SvcStopReader ==
    /\ svc_pc = "shutdown"
    /\ running' = FALSE
    /\ svc_pc' = "join"
    /\ UNCHANGED <<parserVars, lineVars, logVars, buffer_lock, readerVars,
                   svcLocals, senderVars, appended, drains,
                   STOP, serial_open, consecutive_errors>>

\* reader_thread.join returns with the thread ended, then disconnect()
\* closes the port (gnss_reader.py:130-132).  The reader needs far less
\* than the 2 s of the join to reach its loop condition.
SvcJoinReader ==
    /\ svc_pc = "join"
    /\ ReaderEnded
    /\ serial_open' = FALSE
    /\ svc_pc' = "close"
    /\ UNCHANGED <<parserVars, lineVars, logVars, buffer_lock, readerVars,
                   svcLocals, senderVars, appended, drains,
                   STOP, running, consecutive_errors>>

\* self.logger.close() (line 434)
SvcClose ==
    /\ svc_pc = "close"
    /\ Close

InitRun == InitSvc

ReaderThread ==
    \/ ReaderAcquire
    \/ ReaderAppend
    \/ ReaderRelease
    \/ ReaderLoopEnds

ServiceThread ==
    \/ SvcBeginDrain
    \/ SvcCopyNmea
    \/ SvcCopyUbx
    \/ SvcEncode
    \/ SvcClearNmea
    \/ SvcClearUbx
    \/ SvcRelease
    \/ \E outcome \in SendOutcomes : SvcSend(outcome)
    \/ SvcLogNmea
    \/ SvcLogUbx
    \/ SvcSleep
    \/ SvcWake
    \/ SvcExitLoop
    \/ SvcStopReader
    \/ SvcJoinReader
    \/ SvcClose
    \/ ArchCheck
    \/ ArchCompress
    \/ ArchSha
    \/ ArchWriteSha
    \/ ArchRenameZst
    \/ ArchRenameSha
    \/ ArchRemove

\* data and errors on the serial port, signals, a failing archival step
RunEnv ==
    \/ \E chunk \in RunChunks : ReaderRead(chunk)
    \/ ReaderReadError
    \/ SignalStop
    \/ ArchStepFails

NextRun == ReaderThread \/ ServiceThread \/ RunEnv

SpecRun == InitRun /\ [][NextRun]_vars

\* Both threads are scheduled again and again: a thread that can take a
\* step takes one.
SpecRunFair == SpecRun /\ WF_vars(ReaderThread) /\ WF_vars(ServiceThread)

\* the reader has left its loop at the error limit
ReaderDead == ReaderEnded /\ consecutive_errors >= max_consecutive_errors

\* C17: when the reader loop has ended at the maximum consecutive error
\* count, the service loop does not go on running for ever: it stops.
C17_ServiceStopsAfterReaderDies ==
    ReaderDead ~> ~InServiceLoop

\* shutdown() has run to its end: the reader has stopped, close() has
\* returned from the archival of the open pair and the process exits
ShutdownDone == svc_pc = "close" /\ lg_pc = "down" /\ ReaderEnded

\* once STOP is set no further pass of the loop is begun
NoNewPassAfterStop ==
    [][(STOP /\ svc_pc = "top") => svc_pc' \notin {"sleep", "copy_nmea"}]_vars

\* close() is entered only after the loop was left and the reader stopped
CloseAfterReaderStopped ==
    [](lg_pc # "run" => (svc_pc = "close" /\ ReaderEnded /\ ~running))

\* C18: once the stop flag is set the service loop is left after at most
\* the pass in hand, the reader loop then stops, after that the logger
\* flushes, fsyncs and closes both handles and then attempts the archival
\* of the open pair; with both threads scheduled fairly the process always
\* reaches that final state.
C18_ShutdownSequence ==
    /\ NoNewPassAfterStop
    /\ CloseAfterReaderStopped
    /\ [](lg_pc = "closing" => (nmea_fh = NoPath /\ ubx_fh = NoPath))
    /\ (STOP ~> ShutdownDone)

\* the same sequence, the handles left aside when flush, fsync or close
\* raised
ShutdownSequenceButForFaults ==
    /\ NoNewPassAfterStop
    /\ CloseAfterReaderStopped
    /\ []((lg_pc = "closing" /\ faults = 0) => (nmea_fh = NoPath /\ ubx_fh = NoPath))
    /\ (STOP ~> ShutdownDone)

-----------------------------------------------------------------------------
(* The hand-off of a drain when the send fails *)

\* what became of the post of drain record r
OutcomeOf(r) == r.net[1][4]

\* C19: for every non-empty drain, all drained ASCII records and binary
\* frames are passed to write_nmea and write_ubx in the same pass of the
\* loop, whether the post was accepted, rejected or failed; a failed send
\* skips no log write.
C19_LogWritesWhateverTheSend ==
    \A d \in DoneDrains :
        LET r == drains[d] IN
        (r.nmea # << >> \/ r.raw # << >>) =>
            /\ Len(r.net) = 1
            /\ OutcomeOf(r) \in SendOutcomes
            /\ r.log = [i \in 1..Len(r.nmea) |-> <<"nmea", r.nmea[i]>>]
                       \o [i \in 1..Len(r.raw) |-> <<"ubx", r.raw[i]>>]

\* two finished passes, one whose batch was rejected and one whose post
\* failed, each with a sentence or a frame written to the log
C19_Witness ==
    \E d, e \in DoneDrains :
        /\ drains[d].net # << >> /\ OutcomeOf(drains[d]) = "rejected"
        /\ drains[e].net # << >> /\ OutcomeOf(drains[e]) = "error"
        /\ drains[d].log # << >> /\ drains[e].log # << >>

-----------------------------------------------------------------------------
(* SpecSeq: the two programs that post batches.  The combined service      *)
(* posts a drain when it is not empty; sender.py posts every drain.        *)

\* GroundNodeSender.run, one pass (sender.py:137-157): create_batch drains
\* the reader under its lock and numbers the batch, send_batch posts it
SenderCycle(outcome) ==
    /\ impl = "sender"
    /\ Len(drains) < MaxDrains
    /\ LockFree
    /\ nmea_buffer' = Cleared(nmea_buffer)
    /\ ubx_buffer' = Cleared(ubx_buffer)
    /\ sequence_number' = SequenceAfter(outcome)
    /\ drains' = Append(drains,
                        [nmea |-> nmea_buffer, b64 |-> EncodeAll(ubx_buffer),
                         raw |-> ubx_buffer,
                         net |-> <<PostedBatch(nmea_buffer, EncodeAll(ubx_buffer), outcome)>>,
                         log |-> << >>])
    /\ UNCHANGED <<parsing_state, nmea_line_buffer, ubx_partial_buffer, ubx_error_count,
                   lineVars, logVars, buffer_lock, readerVars, svc_pc, svcLocals,
                   batches_sent, batches_failed, appended, runVars>>

\* sender.py has no file logger
InitSender ==
    /\ InitParser
    /\ sent = << >> /\ wire = << >> /\ split = 0 /\ scan_data = << >> /\ scan_i = 0
    /\ SvcIdle
    /\ ReaderStarted
    /\ impl = "sender"
    /\ now = 0
    /\ fs = << >>
    /\ ProcessDown
    /\ ticks = 0 /\ nwrites = 0 /\ faults = 0 /\ crashes = 0
    /\ written = << >> /\ deleted = {} /\ arch_crash = {}
    /\ completed = << >>

InitSeq == InitSvc \/ InitSender

NextSeq ==
    \/ NextSvc
    \/ \E outcome \in SendOutcomes : SenderCycle(outcome)

SpecSeq == InitSeq /\ [][NextSeq]_vars

\* the batches posted so far, in posting order
Posted == Flat([d \in 1..Len(drains) |-> drains[d].net])

\* C20: within one process lifetime the batches posted carry the sequence
\* numbers 1, 2, 3, ... in posting order, whether earlier sends succeeded or
\* failed.
C20_SequenceNumbersCountPosts ==
    \A i \in 1..Len(Posted) : Posted[i][3] = i

\* a second batch posted after a first one that was not accepted
C20_Witness ==
    /\ Len(Posted) = 2
    /\ Posted[1][4] # "accepted"
    /\ Posted[2][3] = 2

-----------------------------------------------------------------------------
(* Files that are never overwritten *)

\* content a is the beginning of content b
IsPrefixOf(a, b) == Len(a) <= Len(b) /\ Prefix(b, Len(a)) = a

\* hourly log files, final artifacts and final sidecars
KeptFile(p) == p[3] \in {"", ".zst", ".zst.sha256"}

\* C21: the logger never overwrites an existing file.  In every step, an
\* hourly log file that exists before and after has only been appended to,
\* and a final artifact or final sidecar that exists before and after has
\* the content it had, across restarts, rotations and re-runs of the
\* archival.
C21_NeverOverwrites ==
    [][\A p \in DOMAIN fs :
          (KeptFile(p) /\ p \in DOMAIN fs') =>
              IF p[3] = "" THEN IsPrefixOf(fs[p], fs'[p]) ELSE fs'[p] = fs[p]]_vars

-----------------------------------------------------------------------------
(* A staged frame that fails its checksum *)

\* C22: when a fully staged frame fails its trailing checksum, the parser
\* emits nothing for it, stays in Searching, holds nothing of it in the
\* pending buffer, and goes on past it: the bytes after it in the chunk are
\* processed as by a parser that had never seen the frame.
C22_BadChecksumFrameDropped ==
    [][(parsing_state = "SEARCHING" /\ ubx_partial_buffer = << >> /\ ChunkStartsWith(FrameBad))
          => LET rest == Slice(wire, Len(FrameBad))
                 q == ProcessData(NewParser, rest)
             IN  /\ parsing_state' = q.parsing_state
                 /\ ubx_partial_buffer' = q.ubx_partial_buffer
                 /\ ubx_buffer' = ubx_buffer \o OutOf(q.out, "ubx")
                 /\ nmea_buffer' = nmea_buffer \o OutOf(q.out, "nmea")]_vars

-----------------------------------------------------------------------------
(* SpecCount: runs of oversized headers and valid frames, so that the      *)
(* consecutive-error counter reaches its threshold.                        *)

MaxCountTokens == 3

CountTokens == {HeaderTooLarge, FrameA}

\* each read returns one to MaxCountTokens whole tokens
CountChunks ==
    {Flat(ts) : ts \in UNION {[1..n -> CountTokens] : n \in 1..MaxCountTokens}}

NextCount == \E c \in CountChunks : ReadChunk(c)

SpecCount == Init /\ [][NextCount]_vars

RECURSIVE CounterAfter(_, _)
\* the counter as the claim describes it, over a stream of whole tokens
\* (byte 5 tells the oversized header from FrameA): one more on an
\* oversized header, back to 0 at the threshold, 0 on a frame
CounterAfter(stream, c) ==
    IF stream = << >> THEN c
    ELSE IF stream[5] = 1
    THEN CounterAfter(Slice(stream, Len(HeaderTooLarge)),
                      IF c + 1 = max_ubx_errors_before_resync THEN 0 ELSE c + 1)
    ELSE CounterAfter(Slice(stream, Len(FrameA)), 0)

\* C23: the consecutive-error counter goes up by one on each oversized
\* header, is 0 after an emitted frame, and at the threshold 5 the hard
\* reset clears the pending buffer and sets it to 0; after every
\* process() call it is in 0..4.
C23_ErrorCounterBounded ==
    /\ ubx_error_count \in 0..(max_ubx_errors_before_resync - 1)
    /\ ubx_error_count = CounterAfter(Flat(sent), 0)
    /\ ubx_partial_buffer = << >>

\* six oversized headers in a row: the fifth reset the counter, the sixth
\* counted again
C23_Witness ==
    /\ sent = <<HeaderTooLarge \o HeaderTooLarge \o HeaderTooLarge,
               HeaderTooLarge \o HeaderTooLarge \o HeaderTooLarge>>
    /\ ubx_error_count = 1

-----------------------------------------------------------------------------
(* SpecMidLine: a frame that starts in the middle of an ASCII line.  The   *)
(* receiver sends the beginning of a sentence and then a whole frame; the  *)
(* reader takes the bytes in one read or in two, cut at any position.      *)

\* "$", "$AB" and "$AB*0": sentences broken off before their end
PartialLines == {<<DOLLAR>>, <<DOLLAR, 65, 66>>, <<DOLLAR, 65, 66, STAR, 48>>}

MidLineStreams == {l \o f : l \in PartialLines, f \in {FrameA, FrameB}}

InitMidLine ==
    /\ InitParser
    /\ \E s \in MidLineStreams : \E k \in 1..(Len(s) - 1) :
          sent = <<s>> /\ wire = s /\ split = k /\ scan_data = << >> /\ scan_i = 0
    /\ LogIdle
    /\ ReaderStarted

SpecMidLine == InitMidLine /\ [][NextSplit]_vars

\* the frame of a stream: all from the first sync byte on
FrameIn(stream) == Slice(stream, IndexOf(stream, UBX_SYNC_CHAR_1) - 1)

\* C24: when the sync pair appears while the parser is in the ASCII line
\* state, the partial line is discarded and never emitted, the parser goes
\* back to Searching without consuming the sync bytes, and the valid frame
\* that starts at the pair is emitted, wherever the chunk boundary falls.
C24_FrameAfterBrokenLine ==
    (wire = << >>) =>
        /\ ubx_buffer = <<FrameIn(sent[1])>>
        /\ nmea_buffer = << >>
        /\ nmea_line_buffer = << >>
        /\ parsing_state = "SEARCHING"

-----------------------------------------------------------------------------
(* SpecLine: ASCII lines at and above the maximum line length.  Each read  *)
(* returns a '$', a run of letters, or a line end.                         *)

MaxLineReads == 4

\* n times 'A'
Letters(n) == [i \in 1..n |-> 65]

LineChunks ==
    {<<DOLLAR>>, Letters(1), Letters(255), Letters(256), <<NEWLINE>>, <<13, NEWLINE>>}

ReadLineChunk(c) ==
    /\ Len(sent) < MaxLineReads
    /\ Process(c)
    /\ sent' = Append(sent, c)
    /\ UNCHANGED <<wire, split, scan_data, scan_i, logVars, svcVars>>

NextLine == \E c \in LineChunks : ReadLineChunk(c)

SpecLine == Init /\ [][NextLine]_vars

\* the chunk read by this step is a run of letters
ReadsLetters == sent' # sent /\ sent'[Len(sent')] \in {Letters(1), Letters(255), Letters(256)}

\* C25: in the ASCII line state, once the line exceeds 512 bytes without a
\* newline the buffered bytes are dropped and the parser is back in
\* Searching (and up to 512 bytes the line is kept); after every process()
\* call the line buffer holds at most 512 bytes, and no emitted record is
\* longer than the bound.
C25_LineBufferBounded ==
    /\ [](Len(nmea_line_buffer) <= max_nmea_line_length)
    /\ [](\A i \in 1..Len(nmea_buffer) : Len(nmea_buffer[i]) <= max_nmea_line_length)
    /\ [][(parsing_state = "IN_NMEA" /\ ReadsLetters) =>
             LET line == nmea_line_buffer \o sent'[Len(sent')]
             IN  IF Len(line) > max_nmea_line_length
                 THEN parsing_state' = "SEARCHING" /\ nmea_line_buffer' = << >>
                      /\ nmea_buffer' = nmea_buffer
                 ELSE parsing_state' = "IN_NMEA" /\ nmea_line_buffer' = line]_vars

\* a line of 513 bytes without a newline has been dropped
C25_Witness ==
    /\ sent = <<<<DOLLAR>>, Letters(256), Letters(256)>>
    /\ parsing_state = "SEARCHING"
    /\ nmea_line_buffer = << >>

-----------------------------------------------------------------------------
(* Where processing of a chunk may end early *)

\* too few bytes are staged to decide the frame at the head of b
Undecided(b) ==
    \/ Len(b) < 6
    \/ Len(b) < 6 + UbxLength(b) + 2

\* C26: process() ends before the end of a chunk only at a sync pair with
\* too few bytes staged to decide the frame, and then the pending buffer
\* holds the bytes from that sync pair on; in every other case the whole
\* chunk is consumed and the pending buffer is empty on return.
C26_PendingOnlyWhenUndecided ==
    ubx_partial_buffer # << >> =>
        /\ SyncPairAt(ubx_partial_buffer, 0)
        /\ Undecided(ubx_partial_buffer)

-----------------------------------------------------------------------------
(* Rotation: which pair is archived, which pair is open *)

\* check_rotation has found a mismatch and has closed and opened the files
RotationStarts == lg_pc = "run" /\ lg_pc' = "rotate"

\* C27: whenever check_rotation() detects a mismatch and closes the open
\* pair, the pair whose archival it triggers is the pair it has just
\* closed, however much time has passed since the previous check.
C27_RotationArchivesClosedPair ==
    [][RotationStarts => arch_queue' = <<nmea_path, ubx_path>>]_vars

\* check_rotation would return without rotating: the call leaves the state
\* as it is
RotationNotDue == lg_pc = "run" /\ HourOfDay(now) = current_hour

\* C28: after every check_rotation() call returns, the open pair is the
\* pair keyed by the current UTC (year, month, day, hour), a change of day
\* with the same hour of day included.
C28_OpenPairIsCurrentHour ==
    RotationNotDue => <<nmea_path, ubx_path>> = PathsFor(now)

-----------------------------------------------------------------------------
(* A failing archival *)

\* the compression tool is missing, or a step of the archival raises
ArchFault == Archiving /\ faults' = faults + 1

\* the routine has returned to its caller: the caller goes on with the
\* next source, and only the shutdown path ends the process after the last
ReturnedToCaller ==
    /\ arch_queue' = Tail(arch_queue)
    /\ lg_pc' = "down" => (lg_pc = "closing" /\ Len(arch_queue) = 1)

\* C29: if the compression tool is unavailable or any step of the archival
\* fails, the routine leaves the uncompressed source as it is and returns
\* to its caller without raising.
C29_ArchivalFailureContained ==
    [][ArchFault =>
          /\ Exists(Src) => (Src \in DOMAIN fs' /\ fs'[Src] = fs[Src])
          /\ ReturnedToCaller]_vars

-----------------------------------------------------------------------------
(* The service loop with failing log writes *)

\* a write_nmea / write_ubx that lets the exception out: run() leaves its
\* loop through `except Exception` and shuts down
AfterWriteErrorRaised(next) == "stopped"

\* except Exception as e: logger.error(...) (lines 223-224, 244-245): the
\* call returns and run() goes on where a successful write would
AfterWriteError(next) == next

\* write_nmea raises inside its try: in write() (the record does not reach
\* the file) or in the periodic flush/fsync (it has been written)
SvcLogNmeaFails(reached) ==
    /\ svc_pc = "log_nmea"
    /\ nmea_fh # NoPath
    /\ faults < MaxFaults
    /\ faults' = faults + 1
    /\ drains' = NoteLog("nmea", nmea_lines[log_i])
    /\ fs' = IF reached THEN FileAfterWrite(nmea_fh, <<now, nmea_lines[log_i]>>) ELSE fs
    /\ written' = IF reached THEN WrittenAfterWrite(nmea_fh, <<now, nmea_lines[log_i]>>)
                  ELSE written
    /\ log_i' = IF AfterNmeaLoop(log_i + 1) = "log_nmea" THEN log_i + 1 ELSE 1
    /\ svc_pc' = AfterWriteError(AfterNmeaLoop(log_i + 1))
    /\ UNCHANGED <<runVars, parserVars, lineVars, readerVars, buffer_lock,
                   nmea_lines, ubx_raw, ubx_base64, senderVars, appended,
                   impl, now, lg_pc, op_now, current_hour, nmea_path, ubx_path,
                   nmea_fh, ubx_fh, arch_queue, arch_pc, sha_out,
                   ticks, nwrites, crashes, deleted, arch_crash, completed>>

\* write_ubx raises inside its try
SvcLogUbxFails(reached) ==
    /\ svc_pc = "log_ubx"
    /\ ubx_fh # NoPath
    /\ faults < MaxFaults
    /\ faults' = faults + 1
    /\ drains' = NoteLog("ubx", ubx_raw[log_i])
    /\ fs' = IF reached THEN FileAfterWrite(ubx_fh, <<now, ubx_raw[log_i]>>) ELSE fs
    /\ written' = IF reached THEN WrittenAfterWrite(ubx_fh, <<now, ubx_raw[log_i]>>)
                  ELSE written
    /\ log_i' = IF log_i < Len(ubx_raw) THEN log_i + 1 ELSE 1
    /\ svc_pc' = AfterWriteError(IF log_i < Len(ubx_raw) THEN "log_ubx" ELSE "top")
    /\ UNCHANGED <<runVars, parserVars, lineVars, readerVars, buffer_lock,
                   nmea_lines, ubx_raw, ubx_base64, senderVars, appended,
                   impl, now, lg_pc, op_now, current_hour, nmea_path, ubx_path,
                   nmea_fh, ubx_fh, arch_queue, arch_pc, sha_out,
                   ticks, nwrites, crashes, deleted, arch_crash, completed>>

NextSvcFaults ==
    \/ NextSvc
    \/ \E reached \in BOOLEAN : SvcLogNmeaFails(reached)
    \/ \E reached \in BOOLEAN : SvcLogUbxFails(reached)

SpecSvcFaults == InitSvc /\ [][NextSvcFaults]_vars

\* a write of the drain in hand has just failed
WriteJustFailed == svc_pc \in {"log_nmea", "log_ubx"} /\ faults' = faults + 1

\* C30: a local file I/O error during a log write, flush or fsync never
\* stops the service: the failing call returns, the remaining records of
\* the drain are still attempted (every record of a finished drain has been
\* handed to its write call, in order), and the loop goes on to the next
\* record or to its next tick.
C30_WriteErrorsDoNotStopService ==
    /\ [](\A d \in DoneDrains :
             /\ OutOf(drains[d].log, "nmea") = drains[d].nmea
             /\ OutOf(drains[d].log, "ubx") = drains[d].raw)
    /\ [][WriteJustFailed => svc_pc' \in {"log_nmea", "log_ubx", "top"}]_vars

\* the first write of a drain of three records failed without reaching the
\* file; both frames after it are on disk and the loop is at its top again
C30_Witness ==
    /\ faults = 1
    /\ svc_pc = "top"
    /\ Len(drains) = 1
    /\ Len(drains[1].log) = 3
    /\ drains[1].nmea # << >>
    /\ fs[nmea_fh] = << >>
    /\ Len(fs[ubx_fh]) = 2

-----------------------------------------------------------------------------
(* Delivery of the buffered records *)

\* the records of the batches posted so far, in posting order
PostedNmea == Flat([i \in 1..Len(Posted) |-> Posted[i][1]])
PostedUbx ==
    Flat([i \in 1..Len(Posted) |->
             [j \in 1..Len(Posted[i][2]) |-> Base64Decode(Posted[i][2][j])]])

\* the records a drain has returned and run() is about to post
ToPostNmea == IF svc_pc = "send" THEN nmea_lines ELSE << >>
ToPostUbx == IF svc_pc = "send" THEN ubx_raw ELSE << >>

\* C31: delivery is at-most-once.  Between drains, the records appended to
\* each buffer are, in append order, the records of the batches posted so
\* far (accepted or not), then those of the batch about to be posted, then
\* those still buffered: each record is in at most one posted batch, the
\* drain has cleared the buffer whatever became of the send, and no record
\* of a failed send is in a later batch.
C31_AtMostOnceDelivery ==
    ~InDrain =>
        /\ OutOf(appended, "nmea") = PostedNmea \o ToPostNmea \o nmea_buffer
        /\ OutOf(appended, "ubx") = PostedUbx \o ToPostUbx \o ubx_buffer

\* a batch whose send failed, then a second batch posted with the records
\* appended since, and the buffers empty
C31_Witness ==
    /\ Len(Posted) = 2
    /\ Posted[1][4] = "error"
    /\ Posted[1][1] # << >> /\ Posted[2][2] # << >>
    /\ Posted[2][1] # Posted[1][1]
    /\ nmea_buffer = << >> /\ ubx_buffer = << >>
    /\ ~InDrain

-----------------------------------------------------------------------------
(* SpecLenient: lines with characters after the two checksum digits, and   *)
(* lines without a checksum field, each taken by the reader in one chunk.  *)

\* what may follow the two digits: nothing, or up to two of 'X', '0', '*'
TailChars == {88, 48, STAR}
ChecksumTails == {<< >>} \cup [1..1 -> TailChars] \cup [1..2 -> TailChars]

LenientBodies == [1..2 -> {65, 66}]

\* "$" body "*" HH tail CR LF, HH the XOR of the body
MkSentenceWithTail(body, tail) ==
    LET s == MkSentence(body)
    IN  Prefix(s, Len(s) - 2) \o tail \o <<13, NEWLINE>>

\* "$" and six letters, CR LF: no '*' in the line
NoStarLines == {<<DOLLAR>> \o b \o b \o b \o <<13, NEWLINE>> : b \in LenientBodies}

LenientLines ==
    {MkSentenceWithTail(b, t) : b \in LenientBodies, t \in ChecksumTails}
        \cup NoStarLines

NextLenient ==
    \/ \E s \in LenientLines : Arrive(s)
    \/ ReadAll

SpecLenient == Init /\ [][NextLenient]_vars

\* C32: checksum validation is lenient.  A '$' line with no '*' is emitted
\* without a checksum test, and of a line with a '*' field only the two
\* characters after '*' are compared with the XOR of the body: whatever
\* follows those two, the line is emitted.  So once the reader has taken
\* all that was sent, the ASCII buffer holds every line sent, in order.
C32_ExtraCharactersNeverReject ==
    (wire = << >>) =>
        nmea_buffer = [i \in 1..Len(sent) |-> SentenceText(sent[i])]

\* the same for the lines in which no second '*' follows the digits
LenientButForSecondStar ==
    (wire = << >>) =>
        nmea_buffer =
            OutOf([i \in 1..Len(sent) |->
                      <<IF CountOf(sent[i], STAR) <= 1 THEN "nmea" ELSE "none",
                        SentenceText(sent[i])>>], "nmea")

-----------------------------------------------------------------------------
(* The checksum sidecar *)

\* the file name of a path within its directory
BaseName(path) == <<path[2], path[3]>>

\* the digest part of the sidecar's line is right whatever the name part
SidecarDigestOfFinal ==
    \A src \in DOMAIN completed :
        Archived(src) => fs[ShaFinal(src)][2] = fs[ZstFinal(src)]

\* C33: after a successful archival of a source path, the sidecar's line is
\* the digest of the final compressed artifact's content followed by the
\* file name of that final artifact.
C33_SidecarNamesFinalArtifact ==
    \A src \in DOMAIN completed :
        Archived(src) =>
            fs[ShaFinal(src)] = <<"sha256", fs[ZstFinal(src)], BaseName(ZstFinal(src))>>

-----------------------------------------------------------------------------
(* The reader loop and its error count *)

\* one pass of the loop has read data / has raised
ReadStep == nreads' = nreads + 1
ErrorStep == nreads' = nreads /\ consecutive_errors' # consecutive_errors
LoopLeft == rd_pc # "ended" /\ rd_pc' = "ended"

\* C34: the reader loop retries after a read error and ends on errors only
\* when max_consecutive_errors (10) errors have occurred with no successful
\* data read between them: every successful read sets the count to 0, every
\* error adds one and ends the loop exactly when the count reaches 10.  Once
\* the running flag is cleared no further read is begun and the loop ends
\* at its next iteration.
C34_ReaderLoopErrorLimit ==
    /\ [](consecutive_errors \in 0..max_consecutive_errors)
    /\ [][ReadStep => consecutive_errors' = 0]_vars
    /\ [][ErrorStep =>
             /\ consecutive_errors' = consecutive_errors + 1
             /\ (rd_pc' = "ended") <=> (consecutive_errors' = max_consecutive_errors)]_vars
    /\ [][LoopLeft =>
             \/ consecutive_errors' = max_consecutive_errors
             \/ ~(running /\ serial_open)]_vars
    /\ [][~running => ~ReadStep /\ ~ErrorStep]_vars
    /\ (~running ~> ReaderEnded)

\* the loop has ended at the tenth error in a row, after a successful read
\* whose records it appended, with the running flag still set
C34_Witness ==
    /\ ReaderEnded
    /\ consecutive_errors = max_consecutive_errors
    /\ nreads > 0 /\ appended # << >>
    /\ running

-----------------------------------------------------------------------------
(* SpecOrder: a stream of three different messages is on the line; the     *)
(* reader takes it in one or two chunks, cut anywhere, while the service   *)
(* drains, posts and logs.                                                 *)

\* "$BA*03\r\n"
SentenceBA == <<DOLLAR, 66, 65, STAR, 48, 51, 13, NEWLINE>>

OrderTokens == {SentenceOk, SentenceBA, FrameA, FrameB}

OrderStreams ==
    {s \in [1..3 -> OrderTokens] : s[1] # s[2] /\ s[1] # s[3] /\ s[2] # s[3]}

InitOrder ==
    /\ InitParser
    /\ sent \in OrderStreams
    /\ wire = Flat(sent)
    /\ split = 0 /\ scan_data = << >> /\ scan_i = 0
    /\ SvcIdle
    /\ ReaderStarted
    /\ LoggerRunning

\* _read_loop: serial_conn.read(in_waiting) returns the k bytes that have
\* arrived, which go to _process_data; the last read takes what is left
ReaderTake(k) ==
    /\ rd_pc = "idle" /\ rd_pending = << >>
    /\ running /\ serial_open
    /\ nreads < MaxReads
    /\ k \in 1..Len(wire)
    /\ (nreads + 1 < MaxReads) \/ k = Len(wire)
    /\ nreads' = nreads + 1
    /\ consecutive_errors' = ErrorsAfterRead(consecutive_errors)
    /\ wire' = Slice(wire, k)
    /\ LET p == ProcessData(ParserOf, Prefix(wire, k)) IN
         /\ parsing_state' = p.parsing_state
         /\ nmea_line_buffer' = p.nmea_line_buffer
         /\ ubx_partial_buffer' = p.ubx_partial_buffer
         /\ ubx_error_count' = p.ubx_error_count
         /\ rd_pending' = p.out
    /\ UNCHANGED <<STOP, running, serial_open, sent, split, scan_data, scan_i,
                   nmea_buffer, ubx_buffer, logVars, buffer_lock, rd_pc,
                   svc_pc, svcLocals, senderVars, appended, drains>>

NextOrder ==
    \/ \E k \in 1..Len(wire) : ReaderTake(k)
    \/ ReaderAcquire
    \/ ReaderAppend
    \/ ReaderRelease
    \/ SvcBeginDrain
    \/ SvcCopyNmea
    \/ SvcCopyUbx
    \/ SvcEncode
    \/ SvcClearNmea
    \/ SvcClearUbx
    \/ SvcRelease
    \/ \E outcome \in SendOutcomes : SvcSend(outcome)
    \/ SvcLogNmea
    \/ SvcLogUbx

SpecOrder == InitOrder /\ [][NextOrder]_vars

RECURSIVE IsSubSeq(_, _)
\* a is b with some elements left out
IsSubSeq(a, b) ==
    IF a = << >> THEN TRUE
    ELSE IF b = << >> THEN FALSE
    ELSE IF Head(a) = Head(b) THEN IsSubSeq(Tail(a), Tail(b))
    ELSE IsSubSeq(a, Tail(b))

\* the messages of the stream, protocol by protocol, in stream order
StreamNmea ==
    OutOf([i \in 1..Len(sent) |->
              IF sent[i][1] = DOLLAR THEN <<"nmea", SentenceText(sent[i])>>
              ELSE <<"ubx", sent[i]>>], "nmea")
StreamUbx ==
    OutOf([i \in 1..Len(sent) |->
              IF sent[i][1] = DOLLAR THEN <<"nmea", SentenceText(sent[i])>>
              ELSE <<"ubx", sent[i]>>], "ubx")

\* the records in a log file, their timestamps left aside
RecordsIn(path) == [i \in 1..Len(fs[path]) |-> fs[path][i][2]]

\* C35: arrival order is preserved end to end within each protocol, for any
\* chunking: the records ever appended to each buffer are in stream order;
\* the drains return them in that order; the posted batches and the hourly
\* log file hold the drained records in that same order.
C35_ArrivalOrderPreserved ==
    /\ IsSubSeq(OutOf(appended, "nmea"), StreamNmea)
    /\ IsSubSeq(OutOf(appended, "ubx"), StreamUbx)
    /\ IsPrefixOf(DrainedNmea, OutOf(appended, "nmea"))
    /\ IsPrefixOf(DrainedUbx, OutOf(appended, "ubx"))
    /\ IsPrefixOf(PostedNmea, DrainedNmea)
    /\ IsPrefixOf(PostedUbx, DrainedUbx)
    /\ IsPrefixOf(RecordsIn(nmea_fh), DrainedNmea)
    /\ IsPrefixOf(RecordsIn(ubx_fh), DrainedUbx)

\* a stream cut inside its second message: both sentences and the frame
\* between them have gone through two drains into two batches and the files
C35_Witness ==
    /\ sent = <<SentenceOk, FrameB, SentenceBA>>
    /\ nreads = 2 /\ wire = << >>
    /\ Len(Posted) = 2
    /\ RecordsIn(nmea_fh) = <<SentenceText(SentenceOk), SentenceText(SentenceBA)>>
    /\ RecordsIn(ubx_fh) = <<FrameB>>
    /\ drains[1].nmea = <<SentenceText(SentenceOk)>>
    /\ drains[1].raw = << >>

-----------------------------------------------------------------------------
(* What has reached the log when the service is down *)

\* the records handed to write_nmea / write_ubx so far, in order
LoggedNmea == Flat([d \in 1..Len(drains) |-> OutOf(drains[d].log, "nmea")])
LoggedUbx == Flat([d \in 1..Len(drains) |-> OutOf(drains[d].log, "ubx")])

\* C36: every record appended to the buffers is eventually appended to an
\* hourly log file, those still buffered when shutdown is signalled
\* included: when shutdown() has closed and archived the files, all
\* appended records have been written.
C36_AllAppendedAreLogged ==
    ShutdownDone =>
        /\ OutOf(appended, "nmea") = LoggedNmea
        /\ OutOf(appended, "ubx") = LoggedUbx

-----------------------------------------------------------------------------
(* A restart within the hour *)

\* the rotation into the hour of `now` has run to its end, no fault and no
\* kill having occurred
RotationDone == lg_pc = "run" /\ op_now = now /\ faults = 0 /\ crashes = 0

\* C37: when the service was shut down (close() archived the partial hour)
\* and restarted within the same hour, the records written to that hour's
\* files after the restart are covered by the hour's archive once the hour
\* is over: after the rotation no uncompressed file holding records is
\* left and the archive holds all that was appended to the file.
C37_RestartedHourFullyArchived ==
    RotationDone =>
        \A kind \in {"nmea", "ubx"} :
            LET src == SrcPath(PrevHour(now), kind) IN
            (src \in DOMAIN completed /\ src \in DOMAIN written) =>
                /\ Exists(src) => fs[src] = << >>
                /\ Archived(src)
                /\ Decompress(fs[ZstFinal(src)]) = AppendedTo(src)

-----------------------------------------------------------------------------
(* SpecStamp: the hour changes while the service loop runs.  A pass of the *)
(* loop reads the clock twice, in check_rotation() (line 391) and in       *)
(* `now = time.time()` (line 394), the timestamp of all its writes; what   *)
(* the clock does later in the pass no statement of the pass sees, so the  *)
(* clock moves before the first reading or between the two.                *)

\* check_rotation() finds the hour unchanged and returns (lines 200-201)
SvcCheckedNoRotation ==
    /\ svc_pc = "top"
    /\ ~STOP
    /\ Len(drains) < MaxDrains
    /\ lg_pc = "run" /\ HourOfDay(now) = current_hour
    /\ svc_pc' = "checked"
    /\ UNCHANGED <<runVars, parserVars, lineVars, logVars, readerVars, buffer_lock,
                   svcLocals, senderVars, appended, drains>>

\* now = time.time(); the send interval has elapsed and the drain enters
\* `with self.buffer_lock:` (lines 394-397)
SvcEnterDrain ==
    /\ svc_pc = "checked"
    /\ LockFree
    /\ buffer_lock' = TRUE
    /\ svc_pc' = "copy_nmea"
    /\ UNCHANGED <<runVars, parserVars, lineVars, logVars, readerVars,
                   svcLocals, senderVars, appended, drains>>

\* check_rotation() finds another hour: files reopened, previous hour
\* archived, all within the call
SvcRotate == svc_pc = "top" /\ CheckRotation

\* the next UTC hour begins
HourBegins == svc_pc \in {"top", "checked"} /\ Tick(1)

NextStamp ==
    \/ \E chunk \in RunChunks : ReaderRead(chunk)
    \/ ReaderAcquire
    \/ ReaderAppend
    \/ ReaderRelease
    \/ HourBegins
    \/ SvcRotate
    \/ ArchExists
    \/ ArchCheck
    \/ ArchCompress
    \/ ArchSha
    \/ ArchWriteSha
    \/ ArchRenameZst
    \/ ArchRenameSha
    \/ ArchRemove
    \/ SvcCheckedNoRotation
    \/ SvcEnterDrain
    \/ SvcCopyNmea
    \/ SvcCopyUbx
    \/ SvcEncode
    \/ SvcClearNmea
    \/ SvcClearUbx
    \/ SvcRelease
    \/ \E outcome \in SendOutcomes : SvcSend(outcome)
    \/ SvcLogNmea
    \/ SvcLogUbx

SpecStamp == InitSvc /\ [][NextStamp]_vars

\* C38: every record appended to an hourly log file carries a timestamp
\* within the UTC hour the file is keyed by, under any timing of the hour
\* boundary relative to check_rotation(), the drain, the send and the log
\* writes of a pass.
C38_TimestampWithinFileHour ==
    \A p \in DOMAIN fs :
        p[3] = "" => \A i \in 1..Len(fs[p]) : fs[p][i][1] = p[1]

-----------------------------------------------------------------------------
(* The parser fields between two calls *)

-----------------------------------------------------------------------------
(* SpecScan: _process_data one iteration of its while loop at a time       *)
(* (gnss_reader.py:187-311).  scan_data is the local `data`, the pending   *)
(* bytes followed by the chunk; scan_i is the local `i`; rd_pc is          *)
(* "scanning" while the call runs.                                         *)

MaxScanCalls == 2

\* an oversized-length branch that stays at the sync pair
AfterTooLargeStay(i) == i

\* i += 2 (line 229)
AfterTooLarge(i) == i + 2

\* One iteration of the loop at index i < len(data): the parser fields and
\* the index after it, and whether the loop was left by `break`.
ScanIteration(p, data, i) ==
    LET byte == data[i + 1] IN
    IF p.parsing_state = "SEARCHING" THEN
        IF byte = UBX_SYNC_CHAR_1 THEN
            IF SyncPairAt(data, i) THEN
                LET staged == Slice(data, i)
                    p1 == [p EXCEPT !.ubx_partial_buffer = staged]
                IN  IF Len(staged) >= 6 /\ UbxLength(staged) > max_ubx_message_length
                    THEN [p |-> UbxTooLarge(p1), i |-> AfterTooLarge(i), brk |-> FALSE]
                    ELSE LET ubx_msg == ExtractUbxMessage(staged)
                         IN  IF ubx_msg # << >>
                             THEN [p |-> [p1 EXCEPT !.out = Append(@, <<"ubx", ubx_msg>>),
                                                    !.ubx_error_count = 0,
                                                    !.ubx_partial_buffer = << >>],
                                   i |-> i + Len(ubx_msg), brk |-> FALSE]
                             ELSE [p |-> p1, i |-> i, brk |-> TRUE]
            ELSE [p |-> p, i |-> i + 1, brk |-> FALSE]
        ELSE IF byte = DOLLAR THEN
            [p |-> [p EXCEPT !.parsing_state = "IN_NMEA", !.nmea_line_buffer = <<byte>>],
             i |-> i + 1, brk |-> FALSE]
        ELSE [p |-> p, i |-> i + 1, brk |-> FALSE]
    ELSE IF p.parsing_state = "IN_NMEA" THEN
        LET p1 == [p EXCEPT !.nmea_line_buffer = Append(@, byte)]
        IN  IF byte = NEWLINE
            THEN [p |-> NmeaLineComplete(p1), i |-> i + 1, brk |-> FALSE]
            ELSE IF LineTooLong(p1.nmea_line_buffer)
            THEN [p |-> [p1 EXCEPT !.nmea_line_buffer = << >>,
                                   !.parsing_state = "SEARCHING"],
                  i |-> i + 1, brk |-> FALSE]
            ELSE IF SyncPairAt(data, i)
            THEN [p |-> [p1 EXCEPT !.nmea_line_buffer = << >>,
                                   !.parsing_state = "SEARCHING"],
                  i |-> i, brk |-> FALSE]                       \* continue
            ELSE [p |-> p1, i |-> i + 1, brk |-> FALSE]
    ELSE
        [p |-> [p EXCEPT !.parsing_state = "SEARCHING",
                         !.nmea_line_buffer = << >>,
                         !.ubx_partial_buffer = << >>],
         i |-> i + 1, brk |-> FALSE]

\* broken and whole messages, one per call
ScanChunks ==
    {SentenceOk, FrameA, FrameBad, HeaderTooLarge \o <<65>>,
     <<DOLLAR, 65>> \o FrameA, <<DOLLAR, 65, UBX_SYNC_CHAR_1>>,
     Prefix(FrameB, 5), Slice(FrameB, 5), <<UBX_SYNC_CHAR_1>>, <<NEWLINE>>}

\* _process_data(chunk) is entered: lines 187-192
ScanBegin(chunk) ==
    /\ rd_pc = "idle"
    /\ nreads < MaxScanCalls
    /\ nreads' = nreads + 1
    /\ sent' = Append(sent, chunk)
    /\ scan_data' = ubx_partial_buffer \o chunk
    /\ ubx_partial_buffer' = << >>
    /\ scan_i' = 0
    /\ rd_pc' = "scanning"
    /\ UNCHANGED <<parsing_state, nmea_line_buffer, ubx_error_count, nmea_buffer,
                   ubx_buffer, wire, split, logVars, buffer_lock, rd_pending, svc_pc,
                   svcLocals, senderVars, appended, drains, runVars>>

\* `while i < len(data)` is true: one iteration
ScanIter ==
    /\ rd_pc = "scanning"
    /\ scan_i < Len(scan_data)
    /\ \E r \in {ScanIteration(ParserOf, scan_data, scan_i)} :
         /\ parsing_state' = r.p.parsing_state
         /\ nmea_line_buffer' = r.p.nmea_line_buffer
         /\ ubx_partial_buffer' = r.p.ubx_partial_buffer
         /\ ubx_error_count' = r.p.ubx_error_count
         /\ nmea_buffer' = nmea_buffer \o OutOf(r.p.out, "nmea")
         /\ ubx_buffer' = ubx_buffer \o OutOf(r.p.out, "ubx")
         /\ scan_i' = r.i
         /\ rd_pc' = IF r.brk THEN "idle" ELSE "scanning"
         /\ scan_data' = IF r.brk THEN << >> ELSE scan_data
    /\ UNCHANGED <<sent, wire, split, logVars, buffer_lock, rd_pending, nreads, svc_pc,
                   svcLocals, senderVars, appended, drains, runVars>>

\* `while i < len(data)` is false: the call returns
ScanEnd ==
    /\ rd_pc = "scanning"
    /\ ~(scan_i < Len(scan_data))
    /\ rd_pc' = "idle"
    /\ scan_data' = << >>
    /\ UNCHANGED <<parserVars, sent, wire, split, scan_i, logVars, buffer_lock,
                   rd_pending, nreads, svc_pc, svcLocals, senderVars, appended,
                   drains, runVars>>

ScanCall == ScanIter \/ ScanEnd

NextScan ==
    \/ \E chunk \in ScanChunks : ScanBegin(chunk)
    \/ ScanIter
    \/ ScanEnd

SpecScan == Init /\ [][NextScan]_vars

\* the thread that has entered the call keeps running it
SpecScanFair == SpecScan /\ WF_vars(ScanCall)

RECURSIVE ParserAfter(_, _)
\* the parser after the calls process(chunks[1]), process(chunks[2]), ...,
\* `out` collecting the appends of all of them
ParserAfter(p, chunks) ==
    IF chunks = << >> THEN p
    ELSE LET q == ProcessData(p, Head(chunks))
         IN  ParserAfter([q EXCEPT !.out = p.out \o q.out], Tail(chunks))

\* between calls the fields are those the calls as a whole lead to
ScanAgreesWithProcessData ==
    rd_pc = "idle" =>
        LET q == ParserAfter(NewParser, sent) IN
        /\ parsing_state = q.parsing_state
        /\ nmea_line_buffer = q.nmea_line_buffer
        /\ ubx_partial_buffer = q.ubx_partial_buffer
        /\ ubx_error_count = q.ubx_error_count
        /\ nmea_buffer = OutOf(q.out, "nmea")
        /\ ubx_buffer = OutOf(q.out, "ubx")

\* an iteration that went from IN_NMEA back to searching at a sync pair
\* without moving on
BackToSearchingAtSync ==
    /\ parsing_state = "IN_NMEA" /\ parsing_state' = "SEARCHING"
    /\ SyncPairAt(scan_data, scan_i)
    /\ scan_i' = scan_i /\ rd_pc' = "scanning"

Advances == scan_i' > scan_i /\ rd_pc' = "scanning"
CallEnds == rd_pc' = "idle"

\* C40: process() terminates for every chunk and every reachable parser
\* state.  Each iteration of the scan loop advances the read position, or
\* ends the call, or goes back to Searching at a sync pair; an iteration in
\* Searching always advances or ends the call, so no two iterations in a
\* row stay in place; the position never passes the end of the data; and a
\* call that has begun comes to its end.
C40_ScanLoopTerminates ==
    /\ [][rd_pc = "scanning" => (Advances \/ CallEnds \/ BackToSearchingAtSync)]_vars
    /\ [][(rd_pc = "scanning" /\ parsing_state = "SEARCHING")
             => (Advances \/ CallEnds)]_vars
    /\ [](rd_pc = "scanning" => scan_i <= Len(scan_data))
    /\ (rd_pc = "scanning" ~> rd_pc = "idle")

\* the second call has ended, having gone back to Searching at the sync
\* pair inside a broken line and appended the frame that starts there
C40_Witness ==
    /\ sent = <<<<DOLLAR, 65, UBX_SYNC_CHAR_1>>, <<DOLLAR, 65>> \o FrameA>>
    /\ rd_pc = "idle"
    /\ ubx_buffer = <<FrameA>>
    /\ parsing_state = "SEARCHING"

=============================================================================
